---- MODULE Spec2Model ----
(***************************************************************************)
(* Model of the company-information tool servers of Rapiernik/mcp-server.  *)
(*                                                                         *)
(* The repository holds five server variants:                              *)
(*   "collectA"  src/src/index.ts 1-481     McpServer, 5 tools             *)
(*   "collectB"  src/src/index.ts 482-1235  McpServer, 7 tools             *)
(*   "full"      src/src/index.ts 1236-1977 class CompanyInfoServer,       *)
(*               4 tools                                                   *)
(*   "basic"     src/unnamed/part_000       class CompanyInfoServer,       *)
(*               3 tools                                                   *)
(*   "mock"      src/build/index.js         class MockServer, 1 tool       *)
(*                                                                         *)
(* Spec      every variant: the initiate / check operations of the         *)
(*           McpServer variants against the dataset-collection provider,   *)
(*           and the CallTool handler of the class-based variants with the *)
(*           operations it calls.  One tool call at a time; each awaited   *)
(*           provider call is a step of its own.                           *)
(* SpecPoll  the McpServer variants with a caller that keeps checking a    *)
(*           snapshot the provider never completes.                        *)
(* SpecTitle isTechnicalJob applied to one title out of all short titles   *)
(*           over a small alphabet.                                        *)
(* SpecName  generateLinkedInId applied to one company name: the keys of   *)
(*           the alias table, names around them and all short names.       *)
(* SpecPair  the "full" variant with two get_company_job_postings requests *)
(*           in flight, interleaved at their awaited provider calls.       *)
(***************************************************************************)
EXTENDS Integers, Sequences, FiniteSets, TLC

VARIABLES
  variant,     \* which server variant is running
  bearer,      \* BRIGHT_DATA_BEARER_TOKEN is configured (read once at startup)
  never,       \* snapshots the provider never completes (environment)
  budget,      \* tool calls the caller may still start (environment)
  prov,        \* provider side: status of each snapshot's collection job
  cpc,         \* position of the tool call in flight: idle, awaitTrigger,
               \* awaitProgress, awaitSnapshot, done
  call,        \* the tool call in flight or finished last
  http,        \* provider requests the call has issued, in order
  received,    \* provider responses the call has received, in order
  outcome,     \* what the caller received
  polls,       \* progress GETs issued so far, per snapshot
  snaps,       \* snapshot GETs issued so far, per snapshot
  triggers,    \* trigger POSTs issued so far
  nRunning,    \* in-progress payloads received so far, per snapshot
  clean,       \* per snapshot: every progress reply so far was in-progress or ready
  remembered,  \* some earlier not-ready check: its call, payload and result
  anyMailKey,  \* process.env.ANY_MAIL_API_KEY is set
  thrown,      \* class-based variants: the error first thrown during the call
  page,        \* fetchCompanyJobPostings: the page being requested
  allData,     \* fetchCompanyJobPostings: the jobs accumulated so far
  params,      \* class-based variants: what each request of http asked for
               \* (the page number, the job id, the company identifier)
  other        \* a second CallTool request in flight beside the first

classVars == <<anyMailKey, thrown, page, allData, params, other>>

(***************************************************************************)
(* Bounds of the model.                                                    *)
(***************************************************************************)
MaxCalls == 3
LongPolls == 31
MaxPages == 3
MaxTitleLen == 3
MaxNameLen == 3

Handles == {"s1", "s2"}

(***************************************************************************)
(* JavaScript values.  A string the code tests with ! or || is modelled by *)
(* its text, "undefined" standing for an absent property.                  *)
(***************************************************************************)
Falsy(x) == x \in {"undefined", ""}

Or(x, dflt) == IF Falsy(x) THEN dflt ELSE x

Range(s) == {s[i] : i \in 1..Len(s)}

\* A string property that may be absent: its text is a tuple of characters or
\* tokens, the empty tuple being the empty string.
Text(chars) == [defined |-> TRUE, text |-> chars]
NoText == [defined |-> FALSE, text |-> <<>>]

\* !x on such a property.
Not(x) == ~x.defined \/ x.text = <<>>

\* String.prototype.includes on texts kept as tuples of characters or tokens.
Includes(s, k) ==
  \E i \in 0..(Len(s) - Len(k)) : SubSeq(s, i + 1, i + Len(k)) = k

Upper ==
  [c \in {"A","B","C","D","E","F","G","H","I","J","K","L","M","N","O","P","Q",
          "R","S","T","U","V","W","X","Y","Z","É","È"} |->
     CASE c = "A" -> "a" [] c = "B" -> "b" [] c = "C" -> "c" [] c = "D" -> "d"
       [] c = "E" -> "e" [] c = "F" -> "f" [] c = "G" -> "g" [] c = "H" -> "h"
       [] c = "I" -> "i" [] c = "J" -> "j" [] c = "K" -> "k" [] c = "L" -> "l"
       [] c = "M" -> "m" [] c = "N" -> "n" [] c = "O" -> "o" [] c = "P" -> "p"
       [] c = "Q" -> "q" [] c = "R" -> "r" [] c = "S" -> "s" [] c = "T" -> "t"
       [] c = "U" -> "u" [] c = "V" -> "v" [] c = "W" -> "w" [] c = "X" -> "x"
       [] c = "Y" -> "y" [] c = "Z" -> "z" [] c = "É" -> "é" [] c = "È" -> "è"]

toLowerCase_Identity(s) == s

toLowerCase(s) ==
  [i \in 1..Len(s) |-> IF s[i] \in DOMAIN Upper THEN Upper[s[i]] ELSE s[i]]

techKeywords ==
  << <<"e", "n", "g", "i", "n", "e", "e", "r">>,
     <<"i", "n", "g", "é", "n", "i", "e", "u", "r">>,
     <<"d", "e", "v", "e", "l", "o", "p", "e", "r">>,
     <<"d", "é", "v", "e", "l", "o", "p", "p", "e", "u", "r">>,
     <<"a", "r", "c", "h", "i", "t", "e", "c", "t">>,
     <<"a", "r", "c", "h", "i", "t", "e", "c", "t", "e">>,
     <<"m", "a", "c", "h", "i", "n", "e", " ", "l", "e", "a", "r", "n", "i", "n", "g">>,
     <<"a", "p", "p", "r", "e", "n", "t", "i", "s", "s", "a", "g", "e", " ", "a", "u", "t", "o", "m", "a", "t", "i", "q", "u", "e">>,
     <<"k", "u", "n", "s", "t", "m", "a", "t", "i", "g", "e", " ", "i", "n", "t", "e", "l", "l", "i", "g", "e", "n", "t", "i", "e">>,
     <<"i", "n", "t", "e", "l", "l", "i", "g", "e", "n", "c", "e", " ", "a", "r", "t", "i", "f", "i", "c", "i", "e", "l", "l", "e">>,
     <<"b", "a", "c", "k", "e", "n", "d">>,
     <<"b", "a", "c", "k", " ", "e", "n", "d">>,
     <<"a", "r", "r", "i", "è", "r", "e", "-", "p", "l", "a", "n">>,
     <<"f", "r", "o", "n", "t", " ", "e", "n", "d">>,
     <<"f", "r", "o", "n", "t", "e", "n", "d">>,
     <<"i", "n", "t", "e", "r", "f", "a", "c", "e", " ", "u", "t", "i", "l", "i", "s", "a", "t", "e", "u", "r">>,
     <<"f", "u", "l", "l", " ", "s", "t", "a", "c", "k">>,
     <<"f", "u", "l", "l", "s", "t", "a", "c", "k">>,
     <<"p", "i", "l", "e", " ", "c", "o", "m", "p", "l", "è", "t", "e">>,
     <<"s", "o", "f", "t", "w", "a", "r", "e">>,
     <<"l", "o", "g", "i", "c", "i", "e", "l">>,
     <<"l", "o", "g", "i", "c", "i", "e", "l", " ", "d", "é", "v", "e", "l", "o", "p", "p", "e", "u", "r">>,
     <<"s", "o", "f", "t", "w", "a", "r", "e", "o", "n", "t", "w", "i", "k", "k", "e", "l", "a", "a", "r">>,
     <<"d", "é", "v", "e", "l", "o", "p", "p", "e", "u", "r", " ", "d", "e", " ", "l", "o", "g", "i", "c", "i", "e", "l", "s">>,
     <<"d", "a", "t", "a", " ", "s", "c", "i", "e", "n", "t", "i", "s", "t">>,
     <<"s", "c", "i", "e", "n", "t", "i", "f", "i", "q", "u", "e", " ", "d", "e", "s", " ", "d", "o", "n", "n", "é", "e", "s">>,
     <<"d", "a", "t", "a", "w", "e", "t", "e", "n", "s", "c", "h", "a", "p", "p", "e", "r">>,
     <<"m", "l">>,
     <<"a", "p", "p", "r", "e", "n", "t", "i", "s", "s", "a", "g", "e", " ", "a", "u", "t", "o", "m", "a", "t", "i", "q", "u", "e">>,
     <<"a", "i", " ", "e", "n", "g", "i", "n", "e", "e", "r">>,
     <<"i", "n", "g", "é", "n", "i", "e", "u", "r", " ", "e", "n", " ", "i", "n", "t", "e", "l", "l", "i", "g", "e", "n", "c", "e", " ", "a", "r", "t", "i", "f", "i", "c", "i", "e", "l", "l", "e">>,
     <<"a", "r", "t", "i", "f", "i", "c", "i", "a", "l", " ", "i", "n", "t", "e", "l", "l", "i", "g", "e", "n", "c", "e">>,
     <<"i", "n", "t", "e", "l", "l", "i", "g", "e", "n", "c", "e", " ", "a", "r", "t", "i", "f", "i", "c", "i", "e", "l", "l", "e">>,
     <<"c", "l", "o", "u", "d">>,
     <<"n", "u", "a", "g", "e">>,
     <<"i", "n", "f", "o", "r", "m", "a", "t", "i", "q", "u", "e", " ", "e", "n", " ", "n", "u", "a", "g", "e">>,
     <<"d", "e", "v", "o", "p", "s">>,
     <<"s", "e", "c", "u", "r", "i", "t", "y", " ", "e", "n", "g", "i", "n", "e", "e", "r">>,
     <<"i", "n", "g", "é", "n", "i", "e", "u", "r", " ", "e", "n", " ", "s", "é", "c", "u", "r", "i", "t", "é">>,
     <<"b", "e", "v", "e", "i", "l", "i", "g", "i", "n", "g", "s", "i", "n", "g", "e", "n", "i", "e", "u", "r">>,
     <<"e", "m", "b", "e", "d", "d", "e", "d">>,
     <<"e", "m", "b", "a", "r", "q", "u", "é">>,
     <<"s", "y", "s", "t", "e", "m", "s", " ", "e", "n", "g", "i", "n", "e", "e", "r">>,
     <<"i", "n", "g", "é", "n", "i", "e", "u", "r", " ", "e", "n", " ", "s", "y", "s", "t", "è", "m", "e", "s">>,
     <<"s", "y", "s", "t", "e", "e", "m", "i", "n", "g", "e", "n", "i", "e", "u", "r">>,
     <<"i", "n", "g", "é", "n", "i", "e", "u", "r", " ", "s", "y", "s", "t", "è", "m", "e">>,
     <<"r", "o", "b", "o", "t", "i", "c", "s">>,
     <<"r", "o", "b", "o", "t", "i", "q", "u", "e">>,
     <<"r", "o", "b", "o", "t", "i", "c", "a">>,
     <<"c", "o", "m", "p", "u", "t", "e", "r", " ", "v", "i", "s", "i", "o", "n">>,
     <<"v", "i", "s", "i", "o", "n", " ", "p", "a", "r", " ", "o", "r", "d", "i", "n", "a", "t", "e", "u", "r">>,
     <<"c", "o", "m", "p", "u", "t", "e", "r", "v", "i", "s", "i", "e">>,
     <<"a", "w", "s">>,
     <<"a", "m", "a", "z", "o", "n", " ", "w", "e", "b", " ", "s", "e", "r", "v", "i", "c", "e", "s">>,
     <<"a", "z", "u", "r", "e">>,
     <<"g", "c", "p">>,
     <<"g", "o", "o", "g", "l", "e", " ", "c", "l", "o", "u", "d">>,
     <<"c", "l", "o", "u", "d", " ", "a", "r", "c", "h", "i", "t", "e", "c", "t">>,
     <<"a", "r", "c", "h", "i", "t", "e", "c", "t", "e", " ", "c", "l", "o", "u", "d">>,
     <<"c", "l", "o", "u", "d", " ", "i", "n", "g", "e", "n", "i", "e", "u", "r">>,
     <<"i", "n", "g", "é", "n", "i", "e", "u", "r", " ", "c", "l", "o", "u", "d">>,
     <<"c", "l", "o", "u", "d", " ", "e", "n", "g", "i", "n", "e", "e", "r">>,
     <<"c", "l", "o", "u", "d", " ", "s", "e", "c", "u", "r", "i", "t", "y">>,
     <<"s", "é", "c", "u", "r", "i", "t", "é", " ", "d", "u", " ", "c", "l", "o", "u", "d">>,
     <<"c", "l", "o", "u", "d", "b", "e", "v", "e", "i", "l", "i", "g", "i", "n", "g">>,
     <<"k", "u", "b", "e", "r", "n", "e", "t", "e", "s">>,
     <<"d", "o", "c", "k", "e", "r">>,
     <<"s", "e", "r", "v", "e", "r", "l", "e", "s", "s">>,
     <<"s", "a", "n", "s", " ", "s", "e", "r", "v", "e", "u", "r">>,
     <<"p", "y", "t", "h", "o", "n">> >>

isTechnicalJob(jobTitle) ==
  LET lowerCaseTitle == toLowerCase(jobTitle)
      matches == SelectSeq(techKeywords, LAMBDA keyword : Includes(lowerCaseTitle, keyword))
  IN  Len(matches) > 0

(***************************************************************************)
(* generateLinkedInId: the alias table and the slug rule.                  *)
(***************************************************************************)
knownCompanyIds ==
  << <<<<"r", "t", "l", " ", "n", "e", "d", "e", "r", "l", "a", "n", "d">>, <<"r", "t", "l", "-", "n", "e", "d", "e", "r", "l", "a", "n", "d">>>>,
     <<<<"r", "t", "l">>, <<"r", "t", "l", "-", "n", "e", "d", "e", "r", "l", "a", "n", "d">>>>,
     <<<<"n", "p", "o">>, <<"n", "p", "o">>>>,
     <<<<"n", "e", "d", "e", "r", "l", "a", "n", "d", "s", "e", " ", "p", "u", "b", "l", "i", "e", "k", "e", " ", "o", "m", "r", "o", "e", "p">>, <<"n", "p", "o">>>>,
     <<<<"d", "p", "g", " ", "m", "e", "d", "i", "a">>, <<"d", "p", "g", "-", "m", "e", "d", "i", "a">>>>,
     <<<<"d", "p", "g">>, <<"d", "p", "g", "-", "m", "e", "d", "i", "a">>>>,
     <<<<"t", "a", "l", "p", "a">>, <<"t", "a", "l", "p", "a", "n", "e", "t", "w", "o", "r", "k">>>>,
     <<<<"t", "a", "l", "p", "a", " ", "n", "e", "t", "w", "o", "r", "k">>, <<"t", "a", "l", "p", "a", "n", "e", "t", "w", "o", "r", "k">>>>,
     <<<<"s", "h", "e", "l", "l">>, <<"s", "h", "e", "l", "l">>>>,
     <<<<"e", "s", "s", "e", "n", "t">>, <<"e", "s", "s", "e", "n", "t">>>>,
     <<<<"v", "a", "t", "t", "e", "n", "f", "a", "l", "l">>, <<"v", "a", "t", "t", "e", "n", "f", "a", "l", "l">>>>,
     <<<<"e", "n", "e", "c", "o">>, <<"e", "n", "e", "c", "o">>>>,
     <<<<"k", "p", "n">>, <<"k", "p", "n">>>>,
     <<<<"i", "n", "g">>, <<"i", "n", "g">>>>,
     <<<<"i", "n", "g", " ", "g", "r", "o", "u", "p">>, <<"i", "n", "g">>>>,
     <<<<"a", "b", "n", " ", "a", "m", "r", "o">>, <<"a", "b", "n", "a", "m", "r", "o">>>>,
     <<<<"a", "b", "n">>, <<"a", "b", "n", "a", "m", "r", "o">>>>,
     <<<<"r", "a", "b", "o", "b", "a", "n", "k">>, <<"r", "a", "b", "o", "b", "a", "n", "k">>>>,
     <<<<"p", "h", "i", "l", "i", "p", "s">>, <<"p", "h", "i", "l", "i", "p", "s">>>>,
     <<<<"h", "e", "i", "n", "e", "k", "e", "n">>, <<"h", "e", "i", "n", "e", "k", "e", "n">>>>,
     <<<<"u", "n", "i", "l", "e", "v", "e", "r">>, <<"u", "n", "i", "l", "e", "v", "e", "r">>>>,
     <<<<"a", "s", "m", "l">>, <<"a", "s", "m", "l">>>>,
     <<<<"k", "p", "m", "g">>, <<"k", "p", "m", "g">>>>,
     <<<<"p", "w", "c">>, <<"p", "w", "c">>>>,
     <<<<"d", "e", "l", "o", "i", "t", "t", "e">>, <<"d", "e", "l", "o", "i", "t", "t", "e">>>>,
     <<<<"e", "y">>, <<"e", "y">>>>,
     <<<<"t", "a", "t", "a", " ", "s", "t", "e", "e", "l">>, <<"t", "a", "t", "a", "-", "s", "t", "e", "e", "l", "-", "e", "u", "r", "o", "p", "e">>>>,
     <<<<"b", "o", "l", ".", "c", "o", "m">>, <<"b", "o", "l", "-", "c", "o", "m">>>>,
     <<<<"b", "o", "l">>, <<"b", "o", "l", "-", "c", "o", "m">>>>,
     <<<<"i", "b", "m">>, <<"i", "b", "m">>>>,
     <<<<"m", "i", "c", "r", "o", "s", "o", "f", "t">>, <<"m", "i", "c", "r", "o", "s", "o", "f", "t">>>>,
     <<<<"g", "o", "o", "g", "l", "e">>, <<"g", "o", "o", "g", "l", "e">>>>,
     <<<<"a", "m", "a", "z", "o", "n">>, <<"a", "m", "a", "z", "o", "n">>>>,
     <<<<"b", "o", "o", "k", "i", "n", "g", ".", "c", "o", "m">>, <<"b", "o", "o", "k", "i", "n", "g", "-", "c", "o", "m">>>>,
     <<<<"b", "o", "o", "k", "i", "n", "g">>, <<"b", "o", "o", "k", "i", "n", "g", "-", "c", "o", "m">>>> >>

WordChars ==
  {"a","b","c","d","e","f","g","h","i","j","k","l","m","n","o","p","q","r","s",
   "t","u","v","w","x","y","z","0","1","2","3","4","5","6","7","8","9","_"}

SpaceChars == {" ", "\t"}

StripSpecial_KeepsAll(s) == s

\* .replace(/[^\w\s-]/g, '')
StripSpecial(s) == SelectSeq(s, LAMBDA c : c \in WordChars \cup SpaceChars \cup {"-"})

\* .replace(/X+/g, '-') for a set X of characters: every run becomes one hyphen.
RECURSIVE RunsToHyphen(_, _)
RunsToHyphen(s, X) ==
  IF s = <<>> THEN <<>>
  ELSE IF Head(s) \in X
    THEN IF Len(s) > 1 /\ s[2] \in X
           THEN RunsToHyphen(Tail(s), X)
           ELSE <<"-">> \o RunsToHyphen(Tail(s), X)
    ELSE <<Head(s)>> \o RunsToHyphen(Tail(s), X)

RECURSIVE Trim(_)
Trim(s) ==
  IF s = <<>> THEN s
  ELSE IF Head(s) \in SpaceChars THEN Trim(Tail(s))
  ELSE IF s[Len(s)] \in SpaceChars THEN Trim(SubSeq(s, 1, Len(s) - 1))
  ELSE s

generateLinkedInId(companyName) ==
  LET lowerName == toLowerCase(companyName)
      hits == {i \in 1..Len(knownCompanyIds) : Includes(lowerName, knownCompanyIds[i][1])}
  IN  IF hits # {}
        THEN knownCompanyIds[CHOOSE i \in hits : \A j \in hits : i <= j][2]
        ELSE Trim(RunsToHyphen(RunsToHyphen(StripSpecial(lowerName), SpaceChars), {"-"}))

NameRtl == <<"R", "T", "L", " ", "N", "e", "d", "e", "r", "l", "a", "n", "d">>
NameOther == <<"S", "o", "m", "e", " ", "R", "ä", "n", "d", "o", "m", " ", "C", "o", "!", "!">>

(***************************************************************************)
(* The McpServer variants: tool registry and inputs.                       *)
(***************************************************************************)
CollectVariants == {"collectA", "collectB"}

InitiateTools(v) ==
  CASE v = "collectA" ->
         {"initiate_company_posts_collection", "initiate_companies_data_collection"}
    [] v = "collectB" ->
         {"initiate_company_job_postings_collection",
          "initiate_company_posts_collection", "initiate_companies_data_collection"}
    [] OTHER -> {}

CheckTools(v) ==
  CASE v = "collectA" -> {"get_company_posts", "get_companies_data"}
    [] v = "collectB" -> {"get_company_job_postings", "get_company_posts", "get_companies_data"}
    [] OTHER -> {}

\* URLs are kept as tuples of tokens; the empty tuple is the empty string.
CompanyUrl == <<"https://www.", "linkedin.com/company/", "eneco">>
OtherUrl == <<"https://", "example.com/", "eneco">>
CompanyPath == <<"linkedin.com/company/">>

SearchParams ==
  [location |-> "Belgium", country |-> "BE", time_range |-> "Past week", company |-> "Eneco"]

InitiateInputs(tool) ==
  CASE tool = "initiate_company_posts_collection" -> {<<>>, OtherUrl, CompanyUrl}
    [] tool = "initiate_companies_data_collection" ->
         {<<>>, <<CompanyUrl>>, <<OtherUrl, CompanyUrl>>}
    [] OTHER -> {SearchParams}

InputError_None(tool, input) == ""

\* The handler's own input check: the message of the Error it throws, "" when
\* the input passes.
InputError(tool, input) ==
  CASE tool = "initiate_company_posts_collection" ->
         IF input = <<>> \/ ~Includes(input, CompanyPath)
           THEN "You must provide a valid LinkedIn company URL" ELSE ""
    [] tool = "initiate_companies_data_collection" ->
         IF Len(input) = 0 THEN "You must provide at least one company URL" ELSE ""
    [] OTHER -> ""

TokenMissing == ~bearer

Ok(payload) == [kind |-> "ok", payload |-> payload]
Err(message) == [kind |-> "error", message |-> message]
NoOutcome == [kind |-> "none"]
NoReply == [http |-> "none"]

(***************************************************************************)
(* initiate*Collection: the trigger POST and its response.                 *)
(***************************************************************************)
TriggerReplies ==
  {[http |-> "fail", body |-> FALSE, snapshot_id |-> "undefined"],
   [http |-> "ok", body |-> FALSE, snapshot_id |-> "undefined"],
   [http |-> "ok", body |-> TRUE, snapshot_id |-> "undefined"],
   [http |-> "ok", body |-> TRUE, snapshot_id |-> ""]}
  \cup {[http |-> "ok", body |-> TRUE, snapshot_id |-> h] : h \in Handles}

\* Mutant: only the body is tested, not the snapshot_id in it.
TriggerInvalid_BodyOnly(resp) == ~resp.body

TriggerInvalid(resp) == ~resp.body \/ Falsy(resp.snapshot_id)

InitiateErrorPrefix(tool) ==
  CASE tool = "initiate_companies_data_collection" -> "Error initiating data collection: "
    [] tool = "initiate_company_posts_collection" ->
         "Error initiating LinkedIn posts collection: "
    [] OTHER -> "Error initiating job search: "

InvalidTriggerMessage(tool) ==
  CASE tool = "initiate_companies_data_collection" ->
         "Failed to trigger dataset collection: Invalid response"
    [] tool = "initiate_company_posts_collection" ->
         "Failed to trigger LinkedIn posts collection: Invalid response"
    [] OTHER -> "Failed to trigger job search: Invalid response"

\* next_step is kept as the tool name its text tells the caller to use.
NextStepTool(tool) ==
  CASE tool = "initiate_companies_data_collection" -> "get_companies_data"
    [] tool = "initiate_company_posts_collection" -> "get_company_posts"
    [] OTHER -> "get_job_search_results"

InitiateResult(tool, snapshotId) ==
  Ok([snapshot_id |-> snapshotId, status |-> "processing",
      next_step |-> NextStepTool(tool)])

\* What the initiate operation makes of the trigger response.
AfterTrigger(tool, resp) ==
  IF resp.http = "fail"
    THEN Err(InitiateErrorPrefix(tool) \o "Request failed")
  ELSE IF TriggerInvalid(resp)
    THEN Err(InitiateErrorPrefix(tool) \o InvalidTriggerMessage(tool))
  ELSE InitiateResult(tool, resp.snapshot_id)

(***************************************************************************)
(* get*: the progress GET, the snapshot GET and the reshaping.             *)
(***************************************************************************)
CheckErrorPrefix(tool) ==
  CASE tool = "get_companies_data" -> "Error retrieving companies data: "
    [] tool = "get_company_posts" -> "Error retrieving LinkedIn company posts: "
    [] OTHER -> "Error retrieving job postings results: "

NotReadyMessage(tool) ==
  CASE tool = "get_companies_data" -> "Data collection is still in progress"
    [] tool = "get_company_posts" -> "LinkedIn posts collection is still in progress"
    [] OTHER -> "Get company job postings is still in progress"

EmptySnapshotMessage(tool) ==
  CASE tool = "get_companies_data" -> "Failed to fetch dataset snapshot: Empty response"
    [] tool = "get_company_posts" ->
         "Failed to fetch LinkedIn posts snapshot: Empty response"
    [] OTHER -> "Failed to fetch job postings results: Empty response"

\* The requests a check operation issues before it reads any response.
\* Mutant: the check polls twice.
CheckFirstRequests_PollTwice(snapshotId) == <<"progress", "progress">>

\* Mutant: the check triggers the collection again before it polls.
CheckFirstRequests_Retrigger(snapshotId) == <<"trigger", "progress">>

CheckFirstRequests(snapshotId) == <<"progress">>

ProgressMissing(data) == ~data.body

\* Mutant: every status but 'error' counts as ready.
IsReady_NotError(data) == data.status # "error"

\* Mutant: a payload without a status counts as ready.
IsReady_OrMissing(data) == data.status \in {"ready", "undefined"}

IsReady(data) == data.status = "ready"

NotReadyResult(tool, data, snapshotId) ==
  Ok([status |-> Or(data.status, "processing"),
      message |-> NotReadyMessage(tool),
      progress |-> data,
      snapshot_id |-> snapshotId,
      next_step |-> "Please check again in a few moments"])

\* !snapshotResponse.data : an absent or empty body; an array is never falsy.
\* Mutant: an empty collection is rejected like an empty body.
SnapshotMissing_OrEmpty(body) == body.kind = "none" \/ body.items = <<>>

SnapshotMissing(body) == body.kind = "none"

\* Array.isArray(data) ? data : [data]
AsArray(body) == IF body.kind = "array" THEN body.items ELSE <<body.items[1]>>

Min(a, b) == IF a < b THEN a ELSE b

FormatCompanies(companiesData) ==
  [i \in 1..Len(companiesData) |->
     [name |-> Or(companiesData[i].name, "null"),
      updates |-> SubSeq(companiesData[i].updates, 1,
                         Min(3, Len(companiesData[i].updates)))]]

\* The first capture of /company\/([^\/]+)/ on a URL kept as tokens.
CompanySegment(url) ==
  LET at == {i \in 1..(Len(url) - 1) : url[i] = "linkedin.com/company/"}
  IN  IF at = {} THEN "undefined"
      ELSE url[(CHOOSE i \in at : \A j \in at : i <= j) + 1]

CompanyKey(post) ==
  Or(post.user_id, Or(CompanySegment(post.discovery_url), "unknown"))

\* The accumulator of the reduce is an object literal: reading acc[companyId]
\* finds the properties every object inherits, so for these keys the guard
\* !acc[companyId] creates no group and acc[companyId].posts is undefined.
ObjectPrototypeKeys ==
  {"constructor", "toString", "toLocaleString", "valueOf", "hasOwnProperty",
   "isPrototypeOf", "propertyIsEnumerable", "__proto__"}

GroupingThrows(postsData) ==
  \E i \in 1..Len(postsData) : CompanyKey(postsData[i]) \in ObjectPrototypeKeys

RECURSIVE GroupPosts(_, _)
GroupPosts(postsData, acc) ==
  IF postsData = <<>> THEN acc
  ELSE LET post == Head(postsData)
           companyId == CompanyKey(post)
           acc1 == IF \E i \in 1..Len(acc) : acc[i].company = companyId
                     THEN acc
                     ELSE Append(acc, [company |-> companyId, posts |-> <<>>])
           j == CHOOSE i \in 1..Len(acc1) : acc1[i].company = companyId
       IN  GroupPosts(Tail(postsData),
                      [acc1 EXCEPT ![j].posts = Append(@, post.id)])

RECURSIVE SumCounts(_)
SumCounts(groups) ==
  IF groups = <<>> THEN 0 ELSE Head(groups).postsCount + SumCounts(Tail(groups))

FormatPosts(postsData) ==
  LET grouped == GroupPosts(postsData, <<>>)
  IN  [i \in 1..Len(grouped) |->
         [company |-> grouped[i].company, posts |-> grouped[i].posts,
          postsCount |-> Len(grouped[i].posts)]]

FormatJobs(jobsData) ==
  LET all == [i \in 1..Len(jobsData) |->
                [id |-> jobsData[i].job_posting_id,
                 title |-> jobsData[i].job_title,
                 isTechnical |->
                   isTechnicalJob(IF jobsData[i].job_title.defined
                                    THEN jobsData[i].job_title.text ELSE <<>>)]]
  IN  SelectSeq(all, LAMBDA job : job.isTechnical)

\* The payload of a ready check (its timestamps are left out).
ReadyResult(tool, body, snapshotId) ==
  CASE tool = "get_companies_data" ->
         LET formatted == FormatCompanies(AsArray(body))
         IN  Ok([status |-> "ready", companies |-> formatted,
                 count |-> Len(formatted), snapshot_id |-> snapshotId])
    [] tool = "get_company_posts" ->
         LET formatted == FormatPosts(AsArray(body))
         IN  IF GroupingThrows(AsArray(body))
               THEN Err(CheckErrorPrefix(tool)
                          \o "Cannot read properties of undefined (reading 'push')")
             ELSE
             Ok([status |-> "ready", companyPosts |-> formatted,
                 companiesCount |-> Len(formatted),
                 totalPostsCount |-> SumCounts(formatted),
                 snapshot_id |-> snapshotId])
    [] OTHER ->
         LET technicalJobs == FormatJobs(AsArray(body))
         IN  Ok([status |-> "ready", jobs |-> technicalJobs,
                 jobCount |-> Len(technicalJobs), snapshot_id |-> snapshotId])

\* What the check operation makes of the snapshot response.
AfterSnapshot(tool, resp, snapshotId) ==
  IF resp.http = "fail"
    THEN Err(CheckErrorPrefix(tool) \o "Request failed")
  ELSE IF SnapshotMissing(resp)
    THEN Err(CheckErrorPrefix(tool) \o EmptySnapshotMessage(tool))
  ELSE ReadyResult(tool, resp, snapshotId)

(***************************************************************************)
(* The provider (environment): sample records and responses.               *)
(***************************************************************************)
TitleEngineer == <<"S", "e", "n", "i", "o", "r", " ", "S", "o", "f", "t", "w", "a", "r", "e", " ", "E", "n", "g", "i", "n", "e", "e", "r">>
TitleCloud == <<"C", "L", "O", "U", "D", " ", "A", "r", "c", "h", "i", "t", "e", "c", "t">>
TitleAssistant == <<"A", "d", "m", "i", "n", "i", "s", "t", "r", "a", "t", "i", "v", "e", " ", "A", "s", "s", "i", "s", "t", "a", "n", "t">>

CompanyRecords ==
  <<[name |-> "Eneco", updates |-> <<"n1", "n2", "n3", "n4">>],
    [name |-> "undefined", updates |-> <<>>]>>

PostRecords ==
  <<[user_id |-> "u1", discovery_url |-> CompanyUrl, id |-> "p1"],
    [user_id |-> "undefined", discovery_url |-> CompanyUrl, id |-> "p2"],
    [user_id |-> "undefined", discovery_url |-> <<>>, id |-> "p3"]>>

\* A post of the company whose LinkedIn name is "constructor".
InheritedKeyPost ==
  [user_id |-> "constructor", discovery_url |-> CompanyUrl, id |-> "p4"]

JobRecords ==
  <<[job_posting_id |-> "j1", job_title |-> Text(TitleEngineer)],
    [job_posting_id |-> "j2", job_title |-> Text(TitleAssistant)],
    [job_posting_id |-> "j3", job_title |-> NoText]>>

SampleRecords(tool) ==
  CASE tool = "get_companies_data" -> CompanyRecords
    [] tool = "get_company_posts" -> PostRecords
    [] OTHER -> JobRecords

\* Snapshot responses: a failed request, an empty body, an empty collection,
\* collections of records and a single record that is not an array.
SnapshotReplies(tool) ==
  LET r == SampleRecords(tool)
  IN  {[http |-> "fail", kind |-> "none", items |-> <<>>],
       [http |-> "ok", kind |-> "none", items |-> <<>>],
       [http |-> "ok", kind |-> "array", items |-> <<>>],
       [http |-> "ok", kind |-> "array", items |-> <<r[1]>>],
       [http |-> "ok", kind |-> "array", items |-> r \o <<r[1]>>],
       [http |-> "ok", kind |-> "object", items |-> <<r[2]>>]}
      \cup (IF tool = "get_company_posts"
              THEN {[http |-> "ok", kind |-> "array", items |-> <<r[1], InheritedKeyPost>>]}
              ELSE {})

\* Progress responses for snapshot h.  A job the provider never completes keeps
\* answering with an in-progress payload; any other job answers from its
\* status, which moves from running to ready or error and then stays, and its
\* request may also fail or come back with no body.
ProgressReplies(h) ==
  IF h \in never
    THEN {[http |-> "ok", body |-> TRUE, status |-> s] : s \in {"running", "undefined"}}
    ELSE {[http |-> "fail", body |-> FALSE, status |-> "undefined"],
          [http |-> "ok", body |-> FALSE, status |-> "undefined"]}
         \cup {[http |-> "ok", body |-> TRUE, status |-> s] :
                 s \in IF prov[h] = "running"
                         THEN {"running", "undefined", "ready", "error"}
                         ELSE {prov[h]}}

InProgress(reply) ==
  reply.http = "ok" /\ reply.body /\ reply.status \in {"running", "undefined"}

(***************************************************************************)
(* The class-based variants: registry, request arguments, errors.          *)
(***************************************************************************)
ClassVariants == {"full", "basic", "mock"}

ClassTools(v) ==
  CASE v = "full" -> {"get_company_job_postings", "get_job_posting_details",
                      "get_company_information", "get_employee_work_email"}
    [] v = "basic" -> {"get_company_job_postings", "get_job_posting_details",
                       "get_company_information"}
    [] OTHER -> {"get_health_advice"}

\* The required list of each tool's inputSchema.
RequiredArgs(tool) ==
  CASE tool = "get_company_job_postings" -> <<"company", "country", "companyId">>
    [] tool = "get_job_posting_details" -> <<"jobId">>
    [] tool = "get_company_information" -> <<"companyName">>
    [] tool = "get_employee_work_email" -> <<"domain", "firstName", "lastName", "companyName">>
    [] tool = "get_health_advice" -> <<"condition">>
    [] OTHER -> <<>>

ArgNames(tool) ==
  IF tool = "get_company_information" THEN {"companyName", "linkedInId"}
  ELSE Range(RequiredArgs(tool))

RequestNames ==
  ClassTools("full") \cup ClassTools("mock") \cup {"no_such_tool"}

ArgValues(tool, name) ==
  CASE name = "country" ->
         {NoText, Text(<<>>), Text(<<"Belgium">>), Text(<<"Netherlands">>), Text(<<"France">>)}
    [] name = "companyName" /\ tool = "get_company_information" ->
         {NoText, Text(<<>>), Text(NameRtl), Text(NameOther)}
    [] name = "linkedInId" -> {NoText, Text(<<>>), Text(<<"custom-id">>)}
    [] name = "condition" -> {NoText, Text(<<>>), Text(<<"H", "e", "a", "d", "a", "c", "h", "e">>), Text(<<"V", "e", "r", "t", "i", "g", "o">>)}
    [] OTHER -> {NoText, Text(<<>>), Text(<<"x">>)}

\* request.params.arguments: absent altogether, or a bag of the tool's arguments.
ArgBags(tool) ==
  {[present |-> FALSE, args |-> [n \in ArgNames(tool) |-> NoText]]}
  \cup {[present |-> TRUE, args |-> a] :
          a \in {f \in [ArgNames(tool) -> UNION {ArgValues(tool, n) : n \in ArgNames(tool)}] :
                   \A n \in ArgNames(tool) : f[n] \in ArgValues(tool, n)}}

\* Errors: McpError codes, and "TypeError" for the JavaScript error of reading
\* a property of undefined.  A message is a tuple of tokens.
E(code, message) == [code |-> code, message |-> message]
NoError == E("none", <<>>)

TypeErrorOfUndefined == E("TypeError", <<"Cannot read properties of undefined">>)

\* The handler's argument checks, in the order of the code.
MissingArgument(tool, bag) ==
  LET args == bag.args
  IN  IF ~bag.present THEN TypeErrorOfUndefined
      ELSE CASE tool = "get_company_job_postings" ->
                  IF Not(args.company) \/ Not(args.country) \/ Not(args.companyId)
                    THEN E("InvalidParams",
                           <<"Missing required parameters: ", "company", ", ",
                             "country", ", or ", "companyId">>)
                    ELSE NoError
             [] tool = "get_job_posting_details" ->
                  IF Not(args.jobId)
                    THEN E("InvalidParams", <<"Missing required parameter: ", "jobId">>)
                    ELSE NoError
             [] tool = "get_company_information" ->
                  IF Not(args.companyName)
                    THEN E("InvalidParams", <<"Missing required parameter: ", "companyName">>)
                    ELSE NoError
             [] tool = "get_employee_work_email" ->
                  IF Not(args.domain)
                    THEN E("InvalidParams", <<"Missing required parameter: ", "domain">>)
                  ELSE IF Not(args.firstName) \/ Not(args.lastName)
                    THEN E("InvalidParams",
                           <<"You must provide either ", "firstName", " and ", "lastName">>)
                  ELSE NoError
             [] OTHER ->
                  IF Not(args.condition)
                    THEN E("InvalidParams", <<"Missing required parameter: ", "condition">>)
                    ELSE NoError

\* What an operation throws before its first provider request.
OperationPrecondition(tool, args, keySet) ==
  CASE tool = "get_company_job_postings" ->
         IF args.country.text \notin {<<"Belgium">>, <<"Netherlands">>}
           THEN E("InvalidParams",
                  <<"LinkedIn geoid not found for country: ">> \o args.country.text)
           ELSE NoError
    [] tool = "get_employee_work_email" ->
         IF ~keySet THEN E("InternalError", <<"Missing AnymailFinder API key">>)
         ELSE NoError
    [] OTHER -> NoError

\* The first error thrown while the handler runs up to its first await.
FirstThrow(v, tool, bag, keySet) ==
  IF tool \notin ClassTools(v)
    THEN E("MethodNotFound", <<"Unknown tool: ", tool>>)
  ELSE IF MissingArgument(tool, bag).code # "none"
    THEN MissingArgument(tool, bag)
  ELSE OperationPrecondition(tool, bag.args, keySet)

HandlerCatch_KeepsMcpError(error) ==
  IF error.code \in {"MethodNotFound", "InvalidParams", "InternalError"} THEN error
  ELSE E("InternalError", <<"Failed to process request: ">> \o error.message)

\* The handler's catch block: every Error, McpError included, is thrown again
\* as an InternalError around its message.
HandlerCatch(error) ==
  E("InternalError", <<"Failed to process request: ">> \o error.message)

Failure(error) == [kind |-> "error", code |-> error.code, message |-> error.message]

\* The provider request an operation starts with.
FirstRequest(tool) ==
  CASE tool = "get_company_job_postings" -> <<"jobs">>
    [] tool = "get_job_posting_details" -> <<"details">>
    [] tool = "get_company_information" -> <<"profile">>
    [] tool = "get_employee_work_email" -> <<"email">>
    [] OTHER -> <<>>

LinkId_AlwaysGenerates(args) == generateLinkedInId(args.companyName.text)

\* The identifier fetchCompanyInformation queries the provider with.
LinkId(args) ==
  IF Not(args.linkedInId) THEN generateLinkedInId(args.companyName.text)
  ELSE args.linkedInId.text

(***************************************************************************)
(* Provider responses of the class-based variants and what each operation  *)
(* makes of them.  A step yields [kind, value, error, first, data]: kind is *)
(* "return", "throw" or "continue"; first is the error first thrown.        *)
(***************************************************************************)
Return(value) ==
  [kind |-> "return", value |-> value, error |-> NoError, first |-> NoError, data |-> <<>>]

Throw(error, first) ==
  [kind |-> "throw", value |-> NoOutcome, error |-> error, first |-> first, data |-> <<>>]

Continue(data) ==
  [kind |-> "continue", value |-> NoOutcome, error |-> NoError, first |-> NoError, data |-> data]

NoData == [kind |-> "none", items |-> <<>>]
Array(items) == [kind |-> "array", items |-> items]

\* !data || data.length === 0
EmptyData(data) == data.kind = "none" \/ Len(data.items) = 0

\* Pages of the job search: titled records, a record with an empty title, and
\* a record without job_position.
JobPages ==
  {<<[job_id |-> "j1", job_position |-> Text(TitleEngineer)],
     [job_id |-> "j2", job_position |-> Text(TitleAssistant)],
     [job_id |-> "j3", job_position |-> Text(TitleCloud)]>>,
   <<[job_id |-> "j4", job_position |-> Text(<<>>)],
     [job_id |-> "j5", job_position |-> Text(TitleEngineer)]>>,
   <<[job_id |-> "j6", job_position |-> Text(TitleEngineer)],
     [job_id |-> "j7", job_position |-> NoText]>>}

DetailPages == {<<[job_position |-> "Engineer"]>>}

ProfilePages ==
  {<<[company_name |-> "Eneco", updates |-> <<"n1", "n2", "n3", "n4">>]>>,
   <<[company_name |-> "Eneco", updates |-> <<"n1", "n2">>]>>,
   <<[company_name |-> "Eneco", updates |-> <<>>]>>}

Pages(tool) ==
  CASE tool = "get_company_job_postings" -> JobPages
    [] tool = "get_job_posting_details" -> DetailPages
    [] OTHER -> ProfilePages

\* axios.get on ScrapingDog: a 2xx response, or a rejection (with the status of
\* the response, 0 when there was none).
ScrapingReplies(tool) ==
  {[http |-> "ok", status |-> 200, data |-> NoData],
   [http |-> "ok", status |-> 200, data |-> Array(<<>>)],
   [http |-> "ok", status |-> 204, data |-> NoData],
   [http |-> "fail", status |-> 404, data |-> NoData],
   [http |-> "fail", status |-> 404, data |-> [kind |-> "object", items |-> <<>>]],
   [http |-> "fail", status |-> 500, data |-> NoData],
   [http |-> "fail", status |-> 0, data |-> NoData]}
  \cup {[http |-> "ok", status |-> 200, data |-> Array(p)] : p \in Pages(tool)}

\* axios.post on AnymailFinder with validateStatus 200..499: a response (its
\* body absent when response.data is null or undefined), or a rejection.
EmailReplies ==
  {[http |-> "ok", status |-> s, body |-> TRUE, success |-> FALSE,
    error_explained |-> x] :
     s \in {200, 400, 401, 402, 403, 404, 451}, x \in {"undefined", "explained"}}
  \cup {[http |-> "ok", status |-> 200, body |-> TRUE, success |-> TRUE,
         error_explained |-> "undefined"]}
  \cup {[http |-> "ok", status |-> s, body |-> FALSE, success |-> FALSE,
         error_explained |-> "undefined"] : s \in {200, 400, 402, 404, 451}}
  \cup {[http |-> "fail", status |-> s, body |-> FALSE, success |-> FALSE,
         error_explained |-> "undefined"] : s \in {500, 0}}

\* fetchCompanyJobPostings: one round of the page loop.
JobsPage_Prepends(args, resp, soFar) ==
  IF resp.http = "ok" /\ resp.status = 200 /\ ~EmptyData(resp.data)
    THEN Continue(SelectSeq([i \in 1..Len(resp.data.items) |->
                               [jobId |-> resp.data.items[i].job_id,
                                jobPosition |-> resp.data.items[i].job_position.text]],
                            LAMBDA job : isTechnicalJob(job.jobPosition)) \o soFar)
    ELSE Return(Ok([company |-> args.company, country |-> args.country,
                    filteredJobPostings |-> soFar, totalCount |-> Len(soFar)]))

JobsPage_ReturnsPartial(args, resp, soFar) ==
  IF resp.http = "ok" /\ resp.status = 200 /\ ~EmptyData(resp.data)
    THEN Continue(soFar \o
                  SelectSeq([i \in 1..Len(resp.data.items) |->
                               [jobId |-> resp.data.items[i].job_id,
                                jobPosition |-> resp.data.items[i].job_position.text]],
                            LAMBDA job : isTechnicalJob(job.jobPosition)))
    ELSE Return(Ok([company |-> args.company, country |-> args.country,
                    filteredJobPostings |-> soFar, totalCount |-> Len(soFar)]))

JobsPage(args, resp, soFar) ==
  LET wrap(e) == E("InternalError", <<"Failed to fetch job postings: ">> \o e.message)
      result == Ok([company |-> args.company, country |-> args.country,
                    filteredJobPostings |-> soFar, totalCount |-> Len(soFar)])
  IN  IF resp.http = "fail"
        THEN IF resp.status = 404
               THEN IF resp.data.kind = "none"
                      THEN Throw(wrap(TypeErrorOfUndefined), E("AxiosError", <<"Request failed">>))
                      ELSE Return(result)
             ELSE Throw(wrap(E("AxiosError", <<"Request failed">>)),
                        E("AxiosError", <<"Request failed">>))
      ELSE IF resp.status # 200 THEN Continue(soFar)
      ELSE IF EmptyData(resp.data) THEN Return(result)
      ELSE IF \E i \in 1..Len(resp.data.items) : ~resp.data.items[i].job_position.defined
        THEN Throw(wrap(TypeErrorOfUndefined), TypeErrorOfUndefined)
      ELSE Continue(soFar \o
             SelectSeq([i \in 1..Len(resp.data.items) |->
                          [jobId |-> resp.data.items[i].job_id,
                           jobPosition |-> resp.data.items[i].job_position.text]],
                       LAMBDA job : isTechnicalJob(job.jobPosition)))

\* fetchJobPostingDetails.
JobDetails(args, resp) ==
  LET wrap(e) == E("InternalError", <<"Failed to fetch job details: ">> \o e.message)
      none == E("InvalidParams", <<"No details found for job ID: ">> \o args.jobId.text)
      unexpected == E("InternalError", <<"Unexpected response status">>)
  IN  IF resp.http = "fail"
        THEN IF resp.status = 404
               THEN Throw(E("InvalidParams",
                            <<"Job posting with ID ">> \o args.jobId.text \o <<" not found">>),
                          E("AxiosError", <<"Request failed">>))
               ELSE Throw(wrap(E("AxiosError", <<"Request failed">>)),
                          E("AxiosError", <<"Request failed">>))
      ELSE IF resp.status # 200 THEN Throw(wrap(unexpected), unexpected)
      ELSE IF EmptyData(resp.data) THEN Throw(wrap(none), none)
      ELSE Return(Ok([jobId |-> args.jobId, jobDetails |-> resp.data.items[1]]))

\* fetchCompanyInformation.
CompanyInformation(args, resp) ==
  LET wrap(e) == E("InternalError", <<"Failed to fetch company information: ">> \o e.message)
      none == E("InvalidParams",
                <<"No information found for company: ">> \o args.companyName.text)
      unexpected == E("InternalError", <<"Unexpected response status">>)
  IN  IF resp.http = "fail"
        THEN IF resp.status = 404
               THEN Throw(E("InvalidParams",
                            <<"Company profile not found for: ">> \o args.companyName.text
                              \o <<". LinkedIn ID tried: ">> \o LinkId(args)),
                          E("AxiosError", <<"Request failed">>))
               ELSE Throw(wrap(E("AxiosError", <<"Request failed">>)),
                          E("AxiosError", <<"Request failed">>))
      ELSE IF resp.status # 200 THEN Throw(wrap(unexpected), unexpected)
      ELSE IF EmptyData(resp.data) THEN Throw(wrap(none), none)
      ELSE LET companyData == resp.data.items[1]
           IN  Return(Ok([companyName |-> args.companyName,
                          linkedInId |-> LinkId(args),
                          name |-> companyData.company_name,
                          recentUpdates |->
                            SubSeq(companyData.updates, 1,
                                   Min(3, Len(companyData.updates)))]))

\* fetchEmployeeEmail of the class-based variant.
EmployeeEmail(resp) ==
  LET detail == IF resp.error_explained = "undefined" THEN <<>> ELSE <<resp.error_explained>>
      setup == E("InternalError", <<"Error setting up request: ">> \o TypeErrorOfUndefined.message)
  IN  IF resp.http = "fail"
        THEN IF resp.status # 0
               THEN Throw(E("InternalError", <<"Request failed with status">>),
                          E("AxiosError", <<"Request failed">>))
               ELSE Throw(E("InternalError", <<"No response received: ">>),
                          E("AxiosError", <<"Request failed">>))
      ELSE IF resp.status = 200 /\ ~resp.body THEN Throw(setup, TypeErrorOfUndefined)
      ELSE IF resp.status = 200 /\ resp.success
        THEN Return(Ok([email |-> "found", success |-> TRUE]))
      ELSE IF resp.status \in {400, 401}
        THEN IF ~resp.body THEN Throw(setup, TypeErrorOfUndefined)
             ELSE LET e == E("InvalidParams",
                             <<"Invalid request: ">> \o
                               (IF detail = <<>> THEN <<"Authentication error">> ELSE detail))
                  IN  Throw(e, e)
      ELSE IF resp.status = 402
        THEN IF ~resp.body THEN Throw(setup, TypeErrorOfUndefined)
             ELSE LET e == E("InternalError",
                             <<"Insufficient credits: ">> \o
                               (IF detail = <<>> THEN <<"Account has insufficient credits">>
                                ELSE detail))
                  IN  Throw(e, e)
      ELSE IF resp.status \in {404, 451}
        THEN Return(Ok([message |-> "Email not found"]))
      ELSE LET e == E("InternalError", <<"Unknown error: ">>)
           IN  Throw(e, e)

\* The mock server's table of conditions, looked up by the lowercased name.
healthResponses ==
  {<<"h", "a", "n", "g", "o", "v", "e", "r">>,
   <<"h", "e", "a", "d", "a", "c", "h", "e">>,
   <<"c", "o", "l", "d">>,
   <<"f", "e", "v", "e", "r">>,
   <<"c", "o", "u", "g", "h">>,
   <<"s", "o", "r", "e", " ", "t", "h", "r", "o", "a", "t">>,
   <<"b", "a", "c", "k", " ", "p", "a", "i", "n">>,
   <<"s", "p", "r", "a", "i", "n">>}

HealthAdvice(condition) ==
  IF toLowerCase(condition) \in healthResponses
    THEN Ok([advice |-> toLowerCase(condition)])
    ELSE Ok([advice |-> <<>>])


\* What the first request of each tool asks the provider for.
FirstParams(name, args) ==
  CASE name = "get_company_job_postings" -> <<1>>
    [] name = "get_job_posting_details" -> <<args.jobId.text>>
    [] name = "get_company_information" -> <<LinkId(args)>>
    [] OTHER -> <<>>

\* page++
NextPage(p) == p + 1
(***************************************************************************)
(* Actions of the McpServer variants.                                      *)
(***************************************************************************)
Count(reqs, what) == Len(SelectSeq(reqs, LAMBDA r : r = what))

\* No second request in flight.
NoOther ==
  [cpc |-> "idle", call |-> [tool |-> "", kind |-> "none", snapshot_id |-> "undefined"],
   page |-> 0, allData |-> <<>>, received |-> <<>>, outcome |-> NoOutcome,
   overlapped |-> FALSE]

NoRemembered ==
  [set |-> FALSE, tool |-> "", snapshot_id |-> "", data |-> NoReply, result |-> NoOutcome]

\* The caller invokes an initiate tool: the handler's input check, the token
\* check and the trigger POST.
StartInitiate(tool, input) ==
  /\ cpc \in {"idle", "done"}
  /\ budget > 0
  /\ tool \in InitiateTools(variant)
  /\ input \in InitiateInputs(tool)
  /\ budget' = budget - 1
  /\ call' = [tool |-> tool, kind |-> "initiate", snapshot_id |-> "undefined",
               input |-> input]
  /\ received' = <<>>
  /\ IF InputError(tool, input) # ""
       THEN /\ outcome' = Err(InputError(tool, input))
            /\ cpc' = "done" /\ http' = <<>> /\ triggers' = triggers
     ELSE IF TokenMissing
       THEN /\ outcome' = Err("Missing Bright Data Bearer Token")
            /\ cpc' = "done" /\ http' = <<>> /\ triggers' = triggers
     ELSE /\ outcome' = NoOutcome
          /\ cpc' = "awaitTrigger" /\ http' = <<"trigger">>
          /\ triggers' = triggers + 1
  /\ UNCHANGED <<variant, bearer, never, prov, polls, snaps, nRunning, clean, remembered, classVars>>

\* The trigger POST returns.
TriggerResponds ==
  /\ cpc = "awaitTrigger"
  /\ \E resp \in TriggerReplies :
       /\ received' = <<resp>>
       /\ outcome' = AfterTrigger(call.tool, resp)
  /\ cpc' = "done"
  /\ UNCHANGED <<variant, bearer, never, budget, prov, call, http,
                 polls, snaps, triggers, nRunning, clean, remembered, classVars>>

\* The caller invokes a check tool with a snapshot id: the token check and the
\* progress GET.
StartCheck(tool, snapshotId) ==
  /\ cpc \in {"idle", "done"}
  /\ tool \in CheckTools(variant)
  /\ snapshotId \in Handles
  /\ IF snapshotId \in never
       THEN polls[snapshotId] < LongPolls /\ budget' = budget
       ELSE budget > 0 /\ budget' = budget - 1
  /\ call' = [tool |-> tool, kind |-> "check", snapshot_id |-> snapshotId]
  /\ received' = <<>>
  /\ IF TokenMissing
       THEN /\ outcome' = Err("Missing Bright Data Bearer Token")
            /\ cpc' = "done" /\ http' = <<>>
            /\ UNCHANGED <<polls, triggers>>
       ELSE LET reqs == CheckFirstRequests(snapshotId)
            IN  /\ outcome' = NoOutcome
                /\ cpc' = "awaitProgress" /\ http' = reqs
                /\ polls' = [polls EXCEPT ![snapshotId] = @ + Count(reqs, "progress")]
                /\ triggers' = triggers + Count(reqs, "trigger")
  /\ UNCHANGED <<variant, bearer, never, prov, snaps, nRunning, clean, remembered, classVars>>

\* The progress GET returns: an error, a not-ready payload, or the snapshot GET.
ProgressResponds ==
  /\ cpc = "awaitProgress"
  /\ \E reply \in ProgressReplies(call.snapshot_id) :
       LET h == call.snapshot_id
           tool == call.tool
       IN  /\ received' = <<reply>>
           /\ prov' = [prov EXCEPT ![h] =
                         IF reply.http = "ok" /\ reply.body
                            /\ reply.status \in {"ready", "error"}
                           THEN reply.status ELSE @]
           /\ nRunning' = [nRunning EXCEPT ![h] = IF InProgress(reply) THEN @ + 1 ELSE @]
           /\ clean' = [clean EXCEPT ![h] =
                          @ /\ (InProgress(reply)
                                \/ (reply.http = "ok" /\ reply.body
                                    /\ reply.status = "ready"))]
           /\ IF reply.http = "fail"
                THEN /\ outcome' = Err(CheckErrorPrefix(tool) \o "Request failed")
                     /\ cpc' = "done"
                     /\ UNCHANGED <<http, snaps, remembered>>
              ELSE IF ProgressMissing(reply)
                THEN /\ outcome' = Err(CheckErrorPrefix(tool)
                                       \o "Failed to check dataset progress: Empty response")
                     /\ cpc' = "done"
                     /\ UNCHANGED <<http, snaps, remembered>>
              ELSE IF ~IsReady(reply)
                THEN /\ outcome' = NotReadyResult(tool, reply, h)
                     /\ cpc' = "done"
                     /\ \E keep \in BOOLEAN :
                          remembered' =
                            IF keep THEN remembered
                            ELSE [set |-> TRUE, tool |-> tool, snapshot_id |-> h,
                                  data |-> reply,
                                  result |-> NotReadyResult(tool, reply, h)]
                     /\ UNCHANGED <<http, snaps>>
              ELSE /\ outcome' = NoOutcome
                   /\ cpc' = "awaitSnapshot"
                   /\ http' = Append(http, "snapshot")
                   /\ snaps' = [snaps EXCEPT ![h] = @ + 1]
                   /\ UNCHANGED remembered
  /\ UNCHANGED <<variant, bearer, never, budget, call, polls, triggers, classVars>>

\* The snapshot GET returns.
SnapshotResponds ==
  /\ cpc = "awaitSnapshot"
  /\ \E resp \in SnapshotReplies(call.tool) :
       /\ received' = Append(received, resp)
       /\ outcome' = AfterSnapshot(call.tool, resp, call.snapshot_id)
  /\ cpc' = "done"
  /\ UNCHANGED <<variant, bearer, never, budget, prov, call, http,
                 polls, snaps, triggers, nRunning, clean, remembered, classVars>>

InitCommon ==
  /\ thrown = NoError
  /\ page = 0
  /\ allData = <<>>
  /\ params = <<>>
  /\ other = NoOther
  /\ prov = [h \in Handles |-> "running"]
  /\ cpc = "idle"
  /\ call = [tool |-> "", kind |-> "none", snapshot_id |-> "undefined"]
  /\ http = <<>>
  /\ received = <<>>
  /\ outcome = NoOutcome
  /\ polls = [h \in Handles |-> 0]
  /\ snaps = [h \in Handles |-> 0]
  /\ triggers = 0
  /\ nRunning = [h \in Handles |-> 0]
  /\ clean = [h \in Handles |-> TRUE]
  /\ remembered = NoRemembered

Init ==
  /\ variant \in CollectVariants \cup ClassVariants
  /\ bearer \in BOOLEAN
  /\ anyMailKey \in BOOLEAN
  /\ never = {}
  /\ budget = MaxCalls
  /\ InitCommon

InitPoll ==
  /\ variant \in CollectVariants
  /\ bearer = TRUE
  /\ anyMailKey = TRUE
  /\ never = {"s1"}
  /\ budget = 1
  /\ InitCommon

(***************************************************************************)
(* get_employee_work_email of the McpServer variants.                      *)
(***************************************************************************)
\* fetchEmployeeEmail (the function of the McpServer variants) before its POST.
EmailKeyMissing_Never(keySet) == FALSE

EmailKeyMissing_ChecksBearer(keySet) == ~bearer

EmailKeyMissing(keySet) == ~keySet

EmailErrorPrefix == "Error fetching employee email: "

fetchEmployeeEmail_Only404(resp) ==
  IF resp.http = "ok" /\ resp.status = 404
    THEN Ok([message |-> "Email not found"])
    ELSE Err(EmailErrorPrefix \o "Unknown error: ")

\* fetchEmployeeEmail (the function of the McpServer variants) after its POST.
fetchEmployeeEmail(resp) ==
  LET wrap(m) == Err(EmailErrorPrefix \o m)
      typeError == wrap("Cannot read properties of undefined")
      detail(dflt) == IF resp.error_explained = "undefined" THEN dflt ELSE resp.error_explained
  IN  IF resp.http = "fail" THEN wrap("Request failed")
      ELSE IF resp.status = 200 /\ ~resp.body THEN typeError
      ELSE IF resp.status = 200 /\ resp.success
        THEN Ok([email |-> "found", success |-> TRUE])
      ELSE IF resp.status \in {404, 451}
        THEN Ok([message |-> "Email not found"])
      ELSE IF resp.status \in {400, 401}
        THEN IF ~resp.body THEN typeError
             ELSE wrap("Invalid request: " \o detail("Authentication error"))
      ELSE IF resp.status = 402
        THEN IF ~resp.body THEN typeError
             ELSE wrap("Insufficient credits: " \o detail("Account has insufficient credits"))
      ELSE wrap("Unknown error: ")

\* The get_employee_work_email tool is called: the handler runs up to the POST.
StartEmail ==
  /\ cpc \in {"idle", "done"}
  /\ variant \in CollectVariants
  /\ budget > 0
  /\ budget' = budget - 1
  /\ call' = [tool |-> "get_employee_work_email", kind |-> "email",
              snapshot_id |-> "undefined"]
  /\ received' = <<>>
  /\ IF EmailKeyMissing(anyMailKey)
       THEN /\ outcome' = Err(EmailErrorPrefix \o "Missing AnymailFinder API key")
            /\ http' = <<>> /\ cpc' = "done"
       ELSE /\ outcome' = NoOutcome
            /\ http' = <<"email">> /\ cpc' = "awaitEmail"
  /\ UNCHANGED <<variant, bearer, never, prov, polls, snaps, triggers, nRunning,
                 clean, remembered, classVars>>

\* The POST to the email provider returns.
EmailResponds ==
  /\ cpc = "awaitEmail"
  /\ \E resp \in EmailReplies :
       /\ received' = <<resp>>
       /\ outcome' = fetchEmployeeEmail(resp)
  /\ cpc' = "done"
  /\ UNCHANGED <<variant, bearer, never, budget, prov, call, http, polls, snaps,
                 triggers, nRunning, clean, remembered, classVars>>

NextCollect ==
  \/ \E tool \in InitiateTools("collectB") :
       \E input \in InitiateInputs(tool) : StartInitiate(tool, input)
  \/ TriggerResponds
  \/ \E tool \in CheckTools("collectB"), h \in Handles : StartCheck(tool, h)
  \/ ProgressResponds
  \/ SnapshotResponds
  \/ StartEmail
  \/ EmailResponds

(***************************************************************************)
(* Actions of the class-based variants.                                    *)
(***************************************************************************)
\* A CallTool request arrives: the handler runs up to its first await, or to
\* the error that ends it.
CallTool(name, bag) ==
  /\ cpc \in {"idle", "done"}
  /\ variant \in ClassVariants
  /\ call' = [tool |-> name, kind |-> "class", bag |-> bag]
  /\ received' = <<>>
  /\ allData' = <<>>
  /\ LET first == FirstThrow(variant, name, bag, anyMailKey)
     IN  IF first.code # "none"
           THEN /\ thrown' = first
                /\ outcome' = Failure(HandlerCatch(first))
                /\ cpc' = "done" /\ http' = <<>> /\ page' = 0
                /\ params' = <<>>
           ELSE /\ thrown' = NoError
                /\ outcome' = NoOutcome
                /\ http' = FirstRequest(name)
                /\ cpc' = IF name = "get_health_advice" THEN "awaitTimer" ELSE "awaitProvider"
                /\ page' = IF name = "get_company_job_postings" THEN 1 ELSE 0
                /\ params' = FirstParams(name, bag.args)
  /\ UNCHANGED <<other, variant, anyMailKey, bearer, never, budget, prov, polls, snaps,
                 triggers, nRunning, clean, remembered>>

\* What the operation in flight makes of a provider response.
OperationStep(c, resp, data) ==
  CASE c.tool = "get_company_job_postings" -> JobsPage(c.bag.args, resp, data)
    [] c.tool = "get_job_posting_details" -> JobDetails(c.bag.args, resp)
    [] c.tool = "get_company_information" -> CompanyInformation(c.bag.args, resp)
    [] OTHER -> EmployeeEmail(resp)

\* The awaited provider request returns one of replies.
Respond(replies) ==
  /\ cpc = "awaitProvider"
  /\ \E resp \in replies :
       LET step == OperationStep(call, resp, allData)
       IN  /\ step.kind = "continue" => page < MaxPages
           /\ received' = IF call.tool = "get_company_job_postings"
                            THEN Append(received, resp) ELSE <<resp>>
           /\ CASE step.kind = "return" ->
                     /\ outcome' = step.value /\ cpc' = "done"
                     /\ UNCHANGED <<thrown, http, page, allData, params>>
                [] step.kind = "throw" ->
                     /\ outcome' = Failure(HandlerCatch(step.error)) /\ cpc' = "done"
                     /\ thrown' = step.first
                     /\ UNCHANGED <<http, page, allData, params>>
                [] OTHER ->
                     /\ http' = Append(http, "jobs")
                     /\ page' = NextPage(page)
                     /\ params' = Append(params, NextPage(page))
                     /\ allData' = step.data
                     /\ UNCHANGED <<outcome, cpc, thrown>>
  /\ UNCHANGED <<other, variant, anyMailKey, bearer, never, budget, prov, call, polls,
                 snaps, triggers, nRunning, clean, remembered>>

ProviderResponds ==
  Respond(IF call.tool = "get_employee_work_email"
            THEN EmailReplies ELSE ScrapingReplies(call.tool))

\* The mock server's simulated delay ends.
TimerFires ==
  /\ cpc = "awaitTimer"
  /\ outcome' = HealthAdvice(call.bag.args.condition.text)
  /\ cpc' = "done"
  /\ UNCHANGED <<variant, anyMailKey, bearer, never, budget, prov, call, http, received,
                 thrown, page, allData, params, other, polls, snaps, triggers, nRunning, clean,
                 remembered>>

\* The CallTool requests a client sends.
Requests ==
  UNION {{[name |-> n, bag |-> b] : b \in ArgBags(n)} : n \in RequestNames}

NextClass ==
  \/ \E r \in Requests : CallTool(r.name, r.bag)
  \/ ProviderResponds
  \/ TimerFires

Next == NextCollect \/ NextClass

vars ==
  <<variant, bearer, never, budget, prov, cpc, call, http, received, outcome,
    polls, snaps, triggers, nRunning, clean, remembered, anyMailKey, thrown,
    page, allData, params, other>>

Spec == Init /\ [][Next]_vars

SpecPoll == InitPoll /\ [][NextCollect]_vars

(***************************************************************************)
(* The classifier on its own.                                              *)
(***************************************************************************)
TitleLetters == {"m", "l", "M", "L", " ", "é"}

\* The titles of at most MaxTitleLen letters, and no title at all.
Titles ==
  {NoText} \cup
  {Text(t) : t \in UNION {[1..n -> TitleLetters] : n \in 0..MaxTitleLen}}

\* A call of isTechnicalJob: jobTitle.toLowerCase() throws on a missing title.
ClassifierResult(jobTitle) ==
  IF ~jobTitle.defined THEN Failure(TypeErrorOfUndefined)
  ELSE Ok(isTechnicalJob(jobTitle.text))

Classify ==
  /\ cpc = "idle"
  /\ call.kind = "classify"
  /\ outcome' = ClassifierResult(call.title)
  /\ cpc' = "done"
  /\ UNCHANGED <<variant, bearer, never, budget, prov, call, http, received, polls,
                 snaps, triggers, nRunning, clean, remembered, classVars>>

InitTitle ==
  /\ variant \in {"collectB", "full", "basic"}
  /\ bearer = TRUE
  /\ anyMailKey = TRUE
  /\ never = {}
  /\ budget = 0
  /\ thrown = NoError
  /\ page = 0
  /\ allData = <<>>
  /\ params = <<>>
  /\ other = NoOther
  /\ prov = [h \in Handles |-> "running"]
  /\ cpc = "idle"
  /\ call \in {[tool |-> "isTechnicalJob", kind |-> "classify", title |-> t] : t \in Titles}
  /\ http = <<>>
  /\ received = <<>>
  /\ outcome = NoOutcome
  /\ polls = [h \in Handles |-> 0]
  /\ snaps = [h \in Handles |-> 0]
  /\ triggers = 0
  /\ nRunning = [h \in Handles |-> 0]
  /\ clean = [h \in Handles |-> TRUE]
  /\ remembered = NoRemembered

SpecTitle == InitTitle /\ [][Classify]_vars

(***************************************************************************)
(* generateLinkedInId on its own.                                          *)
(***************************************************************************)
NameLetters == {"e", "Y", " ", "-", "!", "_"}

\* Company names: every key of the alias table, spelled as in the table and
\* with a capital, a name around a key, the two names of the documentation,
\* and every name of at most MaxNameLen letters.
CompanyNames ==
  {knownCompanyIds[i][1] : i \in 1..Len(knownCompanyIds)}
  \cup {<<"T", "h", "e", " ">> \o knownCompanyIds[i][1] \o <<" ", "B", ".", "V", ".">> :
           i \in 1..Len(knownCompanyIds)}
  \cup {NameRtl, NameOther,
        <<"A", " ", "\t", " ", "b", "-", "-", " ", "-", "c", "&", "d", " ">>}
  \cup UNION {[1..n -> NameLetters] : n \in 0..MaxNameLen}

Resolve ==
  /\ cpc = "idle"
  /\ call.kind = "resolve"
  /\ outcome' = Ok(generateLinkedInId(call.name))
  /\ cpc' = "done"
  /\ UNCHANGED <<variant, bearer, never, budget, prov, call, http, received, polls,
                 snaps, triggers, nRunning, clean, remembered, classVars>>

InitName ==
  /\ variant \in {"full", "basic"}
  /\ bearer = TRUE
  /\ anyMailKey = TRUE
  /\ never = {}
  /\ budget = 0
  /\ thrown = NoError
  /\ page = 0
  /\ allData = <<>>
  /\ params = <<>>
  /\ other = NoOther
  /\ prov = [h \in Handles |-> "running"]
  /\ cpc = "idle"
  /\ call \in {[tool |-> "generateLinkedInId", kind |-> "resolve", name |-> n] :
                 n \in CompanyNames}
  /\ http = <<>>
  /\ received = <<>>
  /\ outcome = NoOutcome
  /\ polls = [h \in Handles |-> 0]
  /\ snaps = [h \in Handles |-> 0]
  /\ triggers = 0
  /\ nRunning = [h \in Handles |-> 0]
  /\ clean = [h \in Handles |-> TRUE]
  /\ remembered = NoRemembered

SpecName == InitName /\ [][Resolve]_vars

(***************************************************************************)
(* Two CallTool requests in flight.  The handler is an async function: a   *)
(* second request may enter it while the first is suspended at an await.   *)
(* The second request keeps its locals in other; other.overlapped records  *)
(* that it resumed while the first request was suspended in mid-flight.    *)
(***************************************************************************)
\* A request that passes the handler's checks and pages through the job search.
PairRequest(country) ==
  [name |-> "get_company_job_postings",
   bag |-> [present |-> TRUE,
            args |-> [company |-> Text(<<"x">>), country |-> Text(<<country>>),
                      companyId |-> Text(<<"x">>)]]]

\* What the provider answers while two requests are in flight: two pages with
\* jobs, the empty page and a failure.
PairReplies ==
  {r \in ScrapingReplies("get_company_job_postings") :
     \/ r.http = "fail" /\ r.status = 500
     \/ /\ r.http = "ok" /\ r.status = 200 /\ r.data.kind = "array"
        /\ \A i \in 1..Len(r.data.items) : r.data.items[i].job_position.defined}

OtherData_Shared == allData

\* let allData: object[] = [] is a local of the invocation.
OtherData == other.allData

OtherCallTool(name, bag) ==
  /\ other.cpc = "idle"
  /\ variant \in ClassVariants
  /\ FirstThrow(variant, name, bag, anyMailKey).code = "none"
  /\ other' = [cpc |-> "awaitProvider",
               call |-> [tool |-> name, kind |-> "class", bag |-> bag],
               page |-> 1, allData |-> <<>>, received |-> <<>>,
               outcome |-> NoOutcome, overlapped |-> FALSE]
  /\ UNCHANGED <<variant, bearer, never, budget, prov, cpc, call, http, received,
                 outcome, polls, snaps, triggers, nRunning, clean, remembered,
                 anyMailKey, thrown, page, allData, params>>

OtherResponds ==
  /\ other.cpc = "awaitProvider"
  /\ \E resp \in PairReplies :
       LET step == OperationStep(other.call, resp, OtherData)
           noted == [other EXCEPT !.received = Append(@, resp),
                                  !.overlapped = @ \/ (cpc = "awaitProvider"
                                                         /\ received # <<>>)]
       IN  /\ step.kind = "continue" => other.page < MaxPages
           /\ other' =
                CASE step.kind = "return" ->
                       [noted EXCEPT !.outcome = step.value, !.cpc = "done"]
                  [] step.kind = "throw" ->
                       [noted EXCEPT !.outcome = Failure(HandlerCatch(step.error)),
                                     !.cpc = "done"]
                  [] OTHER ->
                       [noted EXCEPT !.page = NextPage(@), !.allData = step.data]
  /\ UNCHANGED <<variant, bearer, never, budget, prov, cpc, call, http, received,
                 outcome, polls, snaps, triggers, nRunning, clean, remembered,
                 anyMailKey, thrown, page, allData, params>>

NextPair ==
  \/ CallTool(PairRequest("Belgium").name, PairRequest("Belgium").bag)
  \/ Respond(PairReplies)
  \/ OtherCallTool(PairRequest("Netherlands").name, PairRequest("Netherlands").bag)
  \/ OtherResponds

InitPair ==
  /\ variant = "full"
  /\ bearer = TRUE
  /\ anyMailKey = TRUE
  /\ never = {}
  /\ budget = 0
  /\ InitCommon

SpecPair == InitPair /\ [][NextPair]_vars
(***************************************************************************)
(* Properties of the CallTool handler of the class-based variants.         *)
(***************************************************************************)
ClassDone == cpc = "done" /\ call.kind = "class"

\* The required arguments the request in hand leaves out, in schema order.
MissingRequired(c) ==
  SelectSeq(RequiredArgs(c.tool), LAMBDA n : ~c.bag.args[n].defined)

\* C1: a CallTool request naming a tool that is not registered ends in an
\* error that reaches the caller with code MethodNotFound, and no provider
\* request is made.
C1_UnknownToolIsMethodNotFound ==
  (ClassDone /\ call.tool \notin ClassTools(variant)) =>
     /\ outcome.kind = "error"
     /\ outcome.code = "MethodNotFound"
     /\ http = <<>>

\* C2: a CallTool request for a registered tool that leaves out a required
\* argument ends in an error that reaches the caller with code InvalidParams
\* and whose message names the first missing argument.
C2_MissingArgumentIsInvalidParams ==
  (ClassDone /\ call.tool \in ClassTools(variant) /\ MissingRequired(call) # <<>>) =>
     /\ outcome.kind = "error"
     /\ outcome.code = "InvalidParams"
     /\ MissingRequired(call)[1] \in Range(outcome.message)

\* C3: while a call for a registered tool lacks an argument its input schema
\* requires, companyName of get_employee_work_email included, no provider
\* HTTP request is issued for it.
C3_MissingArgumentMakesNoRequest ==
  (call.kind = "class" /\ call.tool \in ClassTools(variant)
     /\ MissingRequired(call) # <<>>) => http = <<>>

(***************************************************************************)
(* Properties of the initiate / check operations.                          *)
(***************************************************************************)
CheckDone == cpc = "done" /\ call.kind = "check"

InitiateDone == cpc = "done" /\ call.kind = "initiate"

\* The check in hand has received a progress payload (a body) with status s.
SawStatus(s) ==
  /\ call.kind = "check" /\ Len(received) >= 1
  /\ received[1].http = "ok" /\ received[1].body /\ received[1].status = s

\* C4: when the progress GET of a check operation returns status 'error', the
\* operation ends in an error outcome, not a successful payload, and the error
\* carries the raw progress payload.
C4_ErrorStatusIsFatal ==
  (CheckDone /\ SawStatus("error")) =>
     /\ outcome.kind = "error"
     /\ "progress" \in DOMAIN outcome
     /\ outcome.progress = received[1]

\* C5: a check issues its snapshot GET only after its own progress GET returned
\* status 'ready'; after any other progress response (another status, no
\* status, no body, a failed request) it issues no snapshot GET and no further
\* progress GET.
C5_SnapshotOnlyAfterReady ==
  call.kind = "check" =>
     /\ Count(http, "progress") <= 1 /\ Count(http, "snapshot") <= 1
     /\ Count(http, "snapshot") = 1 => (http = <<"progress", "snapshot">> /\ SawStatus("ready"))
     /\ (Len(received) >= 1 /\ ~SawStatus("ready")) => (cpc = "done" /\ http = <<"progress">>)

C5_Witness ==
  /\ CheckDone /\ http = <<"progress", "snapshot">> /\ outcome.kind = "ok"
  /\ remembered.set /\ remembered.snapshot_id = call.snapshot_id
  /\ remembered.data.status = "undefined"

InFlight(h) == IF cpc = "awaitProgress" /\ call.snapshot_id = h THEN 1 ELSE 0

Times(n, what) == [i \in 1..n |-> what]

\* C6 as stated: a check on a snapshot whose progress endpoint answered
\* 'processing' N times and otherwise 'ready' has performed N+1 progress polls
\* and then one snapshot fetch by the time it returns.
C6_Original_CheckPollsUntilReady ==
  (CheckDone /\ bearer /\ clean[call.snapshot_id]) =>
     http = Times(nRunning[call.snapshot_id] + 1, "progress") \o <<"snapshot">>

\* C6 as amended: every check performs exactly one progress poll; for a
\* snapshot whose endpoint answers 'processing' N times and then 'ready', the
\* snapshot fetches issued so far are the polls answered so far minus N, so the
\* first fetch follows the (N+1)-th poll and each later check fetches again.
C6_OnePollPerCheck ==
  /\ (call.kind = "check" /\ bearer) =>
        (Count(http, "progress") = 1 /\ Count(http, "snapshot") <= 1)
  /\ \A h \in Handles :
        clean[h] => snaps[h] = polls[h] - InFlight(h) - nRunning[h]

C6_Witness ==
  \E h \in Handles :
     /\ CheckDone /\ call.snapshot_id = h /\ clean[h] /\ outcome.kind = "ok"
     /\ nRunning[h] = 2 /\ polls[h] = 3 /\ snaps[h] = 1

\* C7 as stated: against a progress endpoint that never reaches 'ready' the
\* polling stops within the budget of 30 polls and the 30th poll ends in a
\* (Timeout) error.
C7_Original_TimeoutAfterBudget ==
  \A h \in never :
     /\ polls[h] <= 30
     /\ (CheckDone /\ call.snapshot_id = h /\ polls[h] = 30) => outcome.kind = "error"

\* C7 as amended: against a progress endpoint that never reaches 'ready' every
\* check polls once, returns a successful in-progress payload and fetches no
\* snapshot; there is no attempt budget and no Timeout error.
C7_NeverReadyNeverFetches ==
  \A h \in never :
     /\ snaps[h] = 0
     /\ (CheckDone /\ call.snapshot_id = h) =>
          /\ http = <<"progress">>
          /\ outcome.kind = "ok"
          /\ outcome.payload.status \in {"running", "processing"}
          /\ outcome.payload.snapshot_id = h

C7_Witness ==
  \E h \in never :
     CheckDone /\ call.snapshot_id = h /\ polls[h] > 30 /\ outcome.kind = "ok"

\* C8: a check issues no trigger POST and changes no server state, and two
\* checks of the same tool and snapshot that see the same progress payload
\* before readiness return the same status, progress and snapshot_id.
C8_CheckIsSideEffectFree ==
  /\ [][call'.kind = "check" =>
          (triggers' = triggers /\ bearer' = bearer /\ anyMailKey' = anyMailKey
           /\ variant' = variant)]_vars
  /\ []((/\ CheckDone /\ remembered.set /\ outcome.kind = "ok"
         /\ Len(http) = 1
         /\ remembered.tool = call.tool
         /\ remembered.snapshot_id = call.snapshot_id
         /\ remembered.data = received[1])
        => /\ outcome.payload.status = remembered.result.payload.status
           /\ outcome.payload.progress = remembered.result.payload.progress
           /\ outcome.payload.snapshot_id = remembered.result.payload.snapshot_id)

C8_Witness ==
  /\ CheckDone /\ remembered.set /\ outcome.kind = "ok" /\ Len(http) = 1
  /\ remembered.tool = call.tool
  /\ remembered.snapshot_id = call.snapshot_id
  /\ remembered.data = received[1]
  /\ polls[call.snapshot_id] >= 2
  /\ triggers = 0

\* C9: when the trigger response of an initiate operation has no body or no
\* snapshot_id, the operation fails with an error, hands no snapshot id to the
\* caller, and issues no progress or snapshot request.
C9_NoHandleIsFatal ==
  /\ call.kind = "initiate" => (Count(http, "progress") = 0 /\ Count(http, "snapshot") = 0)
  /\ (/\ InitiateDone /\ Len(received) = 1 /\ received[1].http = "ok"
      /\ (~received[1].body \/ Falsy(received[1].snapshot_id)))
     => (outcome.kind = "error" /\ http = <<"trigger">>)
  /\ (InitiateDone /\ outcome.kind = "ok") => outcome.payload.snapshot_id \in Handles

C9_Witness ==
  /\ InitiateDone /\ Len(received) = 1 /\ received[1].http = "ok"
  /\ received[1].body /\ received[1].snapshot_id = "undefined"
  /\ outcome.kind = "error"

ResultCount(tool, payload) ==
  CASE tool = "get_companies_data" -> payload.count
    [] tool = "get_company_posts" -> payload.companiesCount + payload.totalPostsCount
    [] OTHER -> payload.jobCount

\* C10: in a check whose progress status is 'ready', an absent snapshot body
\* ends in an error, while a snapshot body that is an empty collection ends in
\* a successful 'ready' payload with zero results.
C10_EmptyBodyIsNotZeroResults ==
  (CheckDone /\ Len(received) = 2 /\ received[2].http = "ok") =>
     /\ received[2].kind = "none" => outcome.kind = "error"
     /\ (received[2].kind = "array" /\ received[2].items = <<>>) =>
          /\ outcome.kind = "ok"
          /\ outcome.payload.status = "ready"
          /\ ResultCount(call.tool, outcome.payload) = 0

C10_Witness ==
  /\ CheckDone /\ Len(received) = 2 /\ received[2].http = "ok"
  /\ received[2].kind = "array" /\ received[2].items = <<>>
  /\ outcome.kind = "ok" /\ outcome.payload.status = "ready"

(***************************************************************************)
(* Properties of get_employee_work_email and of the credentials.           *)
(***************************************************************************)
EmailTool == "get_employee_work_email"

\* An email lookup has finished after one response of the email provider.
EmailAnswered ==
  /\ cpc = "done" /\ call.tool = EmailTool /\ call.kind \in {"email", "class"}
  /\ Len(received) = 1

\* C11: for get_employee_work_email in every variant, a provider response
\* with status 404 or 451 ends in the successful result
\* {message: "Email not found"} and never in an error, whatever its body.
C11_NotFoundIsNotAnError ==
  (EmailAnswered /\ received[1].http = "ok" /\ received[1].status \in {404, 451}) =>
     /\ outcome.kind = "ok"
     /\ outcome.payload = [message |-> "Email not found"]

C11_Witness ==
  /\ EmailAnswered /\ call.kind = "email"
  /\ received[1].status = 451 /\ ~received[1].body
  /\ outcome.kind = "ok"

\* C12: for get_employee_work_email of the class-based server, a provider
\* response with status 402 reaches the caller as an InternalError whose
\* message mentions insufficient credits, after exactly one POST.
C12_InsufficientCreditsIsInternalError ==
  (EmailAnswered /\ call.kind = "class" /\ received[1].http = "ok"
     /\ received[1].status = 402) =>
     /\ outcome.kind = "error"
     /\ outcome.code = "InternalError"
     /\ "Insufficient credits: " \in Range(outcome.message)
     /\ http = <<"email">>

\* C13: for get_employee_work_email of the class-based server, a provider
\* response with status 400 or 401 reaches the caller as an error with code
\* InvalidParams.
C13_BadRequestIsInvalidParams ==
  (EmailAnswered /\ call.kind = "class" /\ received[1].http = "ok"
     /\ received[1].status \in {400, 401}) =>
     /\ outcome.kind = "error"
     /\ outcome.code = "InvalidParams"

\* The call in hand is of a tool that needs a credential which is not set.
CredentialMissing ==
  \/ call.kind \in {"initiate", "check"} /\ ~bearer
  \/ call.tool = EmailTool /\ call.kind \in {"email", "class"} /\ ~anyMailKey

\* C14: a call of a tool whose credential (Bright Data bearer token,
\* AnymailFinder API key) is not configured issues no HTTP request and ends
\* in an error.
C14_MissingCredentialMakesNoRequest ==
  CredentialMissing => (http = <<>> /\ cpc = "done" /\ outcome.kind = "error")

C14_Witness ==
  /\ call.kind = "email" /\ ~anyMailKey /\ bearer
  /\ cpc = "done" /\ http = <<>> /\ outcome.kind = "error"

MissingKeyError == Err(EmailErrorPrefix \o "Missing AnymailFinder API key")
MissingTokenError == Err("Missing Bright Data Bearer Token")

\* C15: a missing credential fails only the calls of the tool that needs it.
\* With either credential unset every tool can still be called; an email
\* lookup fails for a missing credential exactly when the AnymailFinder key
\* is unset, whatever the bearer token, and otherwise sends its POST; a
\* Bright Data call fails for a missing credential only when the bearer token
\* is unset, whatever the AnymailFinder key.
C15_MissingCredentialFailsItsToolOnly ==
  /\ (variant \in CollectVariants /\ cpc \in {"idle", "done"} /\ budget > 0) =>
        /\ ENABLED StartEmail
        /\ \A tool \in CheckTools(variant) : ENABLED StartCheck(tool, "s2")
        /\ \A tool \in InitiateTools(variant) :
              \E input \in InitiateInputs(tool) : ENABLED StartInitiate(tool, input)
  /\ call.kind = "email" =>
        /\ outcome # MissingTokenError
        /\ cpc = "done" => (outcome = MissingKeyError <=> ~anyMailKey)
        /\ anyMailKey => http = <<"email">>
  /\ call.kind \in {"initiate", "check"} =>
        /\ outcome # MissingKeyError
        /\ outcome = MissingTokenError => ~bearer
        /\ (cpc = "done" /\ ~bearer) => (outcome.kind = "error" /\ http = <<>>)
        /\ (call.kind = "check" /\ bearer) => http # <<>>

C15_Witness ==
  /\ ~bearer /\ anyMailKey
  /\ call.kind = "email" /\ cpc = "done"
  /\ outcome.kind = "ok" /\ "email" \in DOMAIN outcome.payload

(***************************************************************************)
(* Properties of the job tools of the class-based variants.                *)
(***************************************************************************)
JobsDone == ClassDone /\ call.tool = "get_company_job_postings"

DetailsAnswered ==
  /\ ClassDone /\ call.tool = "get_job_posting_details"
  /\ Len(received) = 1

\* C16: for get_job_posting_details, a not-found answer of the provider (a 404
\* status, or a 200 response with an empty result list) reaches the caller as
\* an error with code InvalidParams.
C16_NotFoundIsInvalidParams ==
  (/\ DetailsAnswered
   /\ \/ received[1].http = "fail" /\ received[1].status = 404
      \/ (received[1].http = "ok" /\ received[1].status = 200
            /\ received[1].data = Array(<<>>))) =>
     /\ outcome.kind = "error"
     /\ outcome.code = "InvalidParams"

\* The jobs of one provider page that the classifier accepts, in page order.
AcceptedOfPage(resp) ==
  IF resp.http = "ok" /\ resp.status = 200 /\ resp.data.kind = "array"
    THEN LET n == Len(resp.data.items)
             keep == {i \in 1..n : isTechnicalJob(resp.data.items[i].job_position.text)}
             rank(k) == Cardinality({j \in keep : j <= k})
         IN  [r \in 1..Cardinality(keep) |->
                LET at == CHOOSE k \in keep : rank(k) = r
                IN  [jobId |-> resp.data.items[at].job_id,
                     jobPosition |-> resp.data.items[at].job_position.text]]
    ELSE <<>>

RECURSIVE AcceptedOfPages(_)
AcceptedOfPages(replies) ==
  IF replies = <<>> THEN <<>>
  ELSE AcceptedOfPage(Head(replies)) \o AcceptedOfPages(Tail(replies))

\* C17: a successful get_company_job_postings returns as filteredJobPostings
\* the jobs of the fetched pages whose title the classifier accepts, in page
\* order and in within-page order, and totalCount is their number.
C17_JobsAreTheAcceptedJobsInOrder ==
  (JobsDone /\ outcome.kind = "ok") =>
     /\ outcome.payload.filteredJobPostings = AcceptedOfPages(received)
     /\ outcome.payload.totalCount = Len(outcome.payload.filteredJobPostings)

C17_Witness ==
  /\ JobsDone /\ outcome.kind = "ok" /\ Len(received) = 3
  /\ Len(received[1].data.items) = 2 /\ Len(received[2].data.items) = 3
  /\ [i \in 1..3 |-> outcome.payload.filteredJobPostings[i].jobId] = <<"j5", "j1", "j3">>
  /\ outcome.payload.totalCount = 3

\* C18: a finished call has exactly one result, a payload or an error; when a
\* page request of get_company_job_postings fails with anything but a 404
\* after earlier pages gave jobs, the call ends in an error that carries none
\* of those jobs.
C18_NoPartialResults ==
  /\ cpc = "done" =>
        /\ outcome.kind \in {"ok", "error"}
        /\ outcome.kind = "ok" => DOMAIN outcome = {"kind", "payload"}
        /\ outcome.kind = "error" => "payload" \notin DOMAIN outcome
  /\ (/\ JobsDone /\ Len(received) >= 2
      /\ received[Len(received)].http = "fail"
      /\ received[Len(received)].status # 404) =>
        /\ outcome.kind = "error"
        /\ \A i \in 1..Len(allData) : allData[i].jobId \notin Range(outcome.message)

C18_Witness ==
  /\ JobsDone /\ Len(received) >= 2 /\ allData # <<>>
  /\ received[Len(received)].http = "fail" /\ received[Len(received)].status = 500
  /\ outcome.kind = "error"

\* C20: the classifier has no error case, so a provider page holding a
\* record without a title does not make get_company_job_postings fail: when
\* every page request succeeded, the call succeeds.
C20_UntitledRecordIsFilteredOut ==
  (/\ JobsDone /\ received # <<>>
   /\ \A i \in 1..Len(received) : received[i].http = "ok"
   /\ \E i \in 1..Len(received) :
        /\ received[i].data.kind = "array"
        /\ \E j \in 1..Len(received[i].data.items) :
             ~received[i].data.items[j].job_position.defined) =>
     outcome.kind = "ok"

(***************************************************************************)
(* Properties of the classifier.                                           *)
(***************************************************************************)
Classified == cpc = "done" /\ call.kind = "classify"

\* Letter c of a title is letter l of a keyword, up to letter case.
SameLetter(c, l) == c = l \/ (c \in DOMAIN Upper /\ Upper[c] = l)

\* The title holds a keyword of the vocabulary, letter case aside.
ContainsKeyword(t) ==
  \E k \in Range(techKeywords) :
     \E i \in 0..(Len(t) - Len(k)) :
        \A j \in 1..Len(k) : SameLetter(t[i + j], k[j])

\* The title with every letter in upper case.
UpperCase(t) ==
  [i \in 1..Len(t) |->
     IF \E u \in DOMAIN Upper : Upper[u] = t[i]
       THEN CHOOSE u \in DOMAIN Upper : Upper[u] = t[i]
       ELSE t[i]]

\* C19: isTechnicalJob returns true exactly for the titles that hold a keyword
\* of the vocabulary once lowercased, and the title in upper case is
\* classified the same.
C19_TechnicalIffKeyword ==
  (Classified /\ call.title.defined) =>
     /\ outcome = Ok(ContainsKeyword(call.title.text))
     /\ isTechnicalJob(UpperCase(call.title.text)) = outcome.payload

C19_Witness ==
  /\ Classified /\ call.title = Text(<<" ", "M", "l">>)
  /\ outcome = Ok(TRUE)

(***************************************************************************)
(* C21, C28: generateLinkedInId.                                           *)
(***************************************************************************)
Resolved == call.kind = "resolve" /\ cpc = "done"

\* The lowercased name, letter by letter.
LowerCased(name) ==
  [i \in 1..Len(name) |->
     IF \E l \in WordChars : SameLetter(name[i], l) /\ name[i] # l
       THEN CHOOSE l \in WordChars : SameLetter(name[i], l)
       ELSE name[i]]

\* key occurs in text at position p.
OccursAt(text, key, p) ==
  /\ p + Len(key) - 1 <= Len(text)
  /\ \A k \in 1..Len(key) : text[p + k - 1] = key[k]

AliasMatches(name, i) ==
  \E p \in 1..Len(name) : OccursAt(LowerCased(name), knownCompanyIds[i][1], p)

\* The slug rule, position by position: of the letters of the lowercased name
\* that are word characters, whitespace or hyphens, a word character stays,
\* and a whitespace or hyphen becomes a hyphen unless the kept letter before
\* it is a whitespace or hyphen too.
SlugOf(name) ==
  LET low == LowerCased(name)
      separators == SpaceChars \cup {"-"}
      kept == {i \in 1..Len(low) : low[i] \in WordChars \cup separators}
      before(i) == {j \in kept : j < i}
      prev(i) == CHOOSE j \in before(i) : \A m \in before(i) : m <= j
      emitted == {i \in kept : \/ low[i] \in WordChars
                               \/ before(i) = {}
                               \/ low[prev(i)] \in WordChars}
      rank(i) == Cardinality({j \in emitted : j <= i})
      at(n) == CHOOSE i \in emitted : rank(i) = n
  IN  [n \in 1..Cardinality(emitted) |->
         IF low[at(n)] \in WordChars THEN low[at(n)] ELSE "-"]

\* C21: generateLinkedInId returns the slug of the first entry of the alias
\* table, in table order, whose key is a substring of the lowercased name;
\* when no key is, it returns the lowercased name without the characters
\* outside word characters, whitespace and hyphen, with each whitespace run
\* and each hyphen run turned into one hyphen.  "RTL Nederland" gives
\* "rtl-nederland" and "Some Rändom Co!!" gives "some-rndom-co".
C21_AliasFirstElseSlug ==
  Resolved =>
    LET matches == {i \in 1..Len(knownCompanyIds) : AliasMatches(call.name, i)}
    IN  /\ matches # {} =>
             \E i \in matches :
               /\ \A j \in matches : i <= j
               /\ outcome.payload = knownCompanyIds[i][2]
        /\ matches = {} => outcome.payload = SlugOf(call.name)
        /\ call.name = NameRtl =>
             outcome.payload = <<"r","t","l","-","n","e","d","e","r","l","a","n","d">>
        /\ call.name = NameOther =>
             outcome.payload = <<"s","o","m","e","-","r","n","d","o","m","-","c","o">>

C21_Witness ==
  /\ Resolved
  /\ call.name = NameOther
  /\ outcome.payload = <<"s","o","m","e","-","r","n","d","o","m","-","c","o">>

\* C28: every entry of the alias table is reachable: for every key of the
\* table, generateLinkedInId of the key returns the slug the table maps the
\* key to.
C28_EveryAliasResolvesToItsSlug ==
  Resolved =>
    \A i \in 1..Len(knownCompanyIds) :
      call.name = knownCompanyIds[i][1] => outcome.payload = knownCompanyIds[i][2]

(***************************************************************************)
(* C22: get_company_information.                                           *)
(***************************************************************************)
\* A get_company_information call that has sent its request.
ProfileAsked ==
  /\ call.kind = "class" /\ call.tool = "get_company_information"
  /\ http = <<"profile">>

\* C22: get_company_information queries the provider with the supplied
\* linkedInId unchanged when one is supplied, and with the identifier generated
\* from companyName only when none is supplied; the returned linkedInId is the
\* identifier that was queried, and recentUpdates holds the first min(3, n) of
\* the provider's n updates, in their order.
C22_QueriesSuppliedIdAndReturnsIt ==
  ProfileAsked =>
    LET args == call.bag.args
        supplied == args.linkedInId.defined /\ args.linkedInId.text # <<>>
    IN  /\ Len(params) = 1
        /\ supplied => params[1] = args.linkedInId.text
        /\ (~supplied /\ args.companyName.text = NameRtl) =>
             params[1] = <<"r","t","l","-","n","e","d","e","r","l","a","n","d">>
        /\ (~supplied /\ args.companyName.text = NameOther) =>
             params[1] = <<"s","o","m","e","-","r","n","d","o","m","-","c","o">>
        /\ (cpc = "done" /\ outcome.kind = "ok") =>
             LET updates == received[1].data.items[1].updates
             IN  /\ outcome.payload.linkedInId = params[1]
                 /\ Len(outcome.payload.recentUpdates) =
                      IF Len(updates) < 3 THEN Len(updates) ELSE 3
                 /\ \A i \in 1..Len(outcome.payload.recentUpdates) :
                      outcome.payload.recentUpdates[i] = updates[i]

C22_Witness ==
  /\ ProfileAsked /\ cpc = "done" /\ outcome.kind = "ok"
  /\ call.bag.args.companyName.text = NameRtl
  /\ params = << <<"custom-id">> >>
  /\ outcome.payload.linkedInId = <<"custom-id">>
  /\ Len(received[1].data.items[1].updates) = 4
  /\ Len(outcome.payload.recentUpdates) = 3

(***************************************************************************)
(* C23: get_company_posts.                                                 *)
(***************************************************************************)
\* A get_company_posts check that fetched the snapshot of a ready collection
\* and found a body in it.
PostsFetched ==
  /\ CheckDone /\ call.tool = "get_company_posts"
  /\ Len(received) = 2 /\ received[2].http = "ok" /\ received[2].kind # "none"

\* The post records of the snapshot in hand.
PostsOfSnapshot ==
  IF received[2].kind = "array" THEN received[2].items ELSE <<received[2].items[1]>>

\* The key of a post: user_id, else the company segment of the discovery URL,
\* else 'unknown'.
KeyOfPost(post) ==
  IF post.user_id \notin {"undefined", ""} THEN post.user_id
  ELSE IF \E i \in 1..(Len(post.discovery_url) - 1) :
            post.discovery_url[i] = "linkedin.com/company/"
    THEN post.discovery_url[(CHOOSE i \in 1..(Len(post.discovery_url) - 1) :
            /\ post.discovery_url[i] = "linkedin.com/company/"
            /\ \A j \in 1..(i - 1) : post.discovery_url[j] # "linkedin.com/company/") + 1]
  ELSE "unknown"

\* C23: for a ready snapshot, get_company_posts places every post record in
\* exactly one company group, the group of its key; a group holds its posts in
\* snapshot order; companiesCount is the number of distinct keys and
\* totalPostsCount is the sum of the groups' postsCount, which is the number of
\* post records in the snapshot.
C23_EveryPostInExactlyOneGroup ==
  PostsFetched =>
    LET posts == PostsOfSnapshot
        keys == {KeyOfPost(posts[i]) : i \in 1..Len(posts)}
    IN  /\ outcome.kind = "ok"
        /\ LET groups == outcome.payload.companyPosts
               ofKey(k) == SelectSeq(posts, LAMBDA p : KeyOfPost(p) = k)
           IN  /\ {groups[g].company : g \in 1..Len(groups)} = keys
               /\ \A g, h \in 1..Len(groups) :
                    groups[g].company = groups[h].company => g = h
               /\ \A g \in 1..Len(groups) :
                    /\ groups[g].posts =
                         [n \in 1..Len(ofKey(groups[g].company)) |->
                            ofKey(groups[g].company)[n].id]
                    /\ groups[g].postsCount = Len(groups[g].posts)
               /\ outcome.payload.companiesCount = Cardinality(keys)
               /\ outcome.payload.totalPostsCount = Len(posts)

(***************************************************************************)
(* C24: two requests in flight.                                            *)
(***************************************************************************)
\* The result of a request run alone against the provider responses replies.
RECURSIVE RunAlone(_, _, _)
RunAlone(c, replies, data) ==
  IF replies = <<>> THEN NoOutcome
  ELSE LET step == OperationStep(c, Head(replies), data)
       IN  CASE step.kind = "return" -> step.value
             [] step.kind = "throw" -> Failure(HandlerCatch(step.error))
             [] OTHER -> RunAlone(c, Tail(replies), step.data)

\* C24: concurrent tool requests share no mutable state: however two requests
\* in flight interleave at their awaited network calls, the result of each is
\* the result it produces when run alone against the same provider responses.
C24_ResultIsTheResultRunAlone ==
  /\ (ClassDone /\ received # <<>>) => outcome = RunAlone(call, received, <<>>)
  /\ other.cpc = "done" => other.outcome = RunAlone(other.call, other.received, <<>>)

C24_Witness ==
  /\ ClassDone /\ other.cpc = "done" /\ other.overlapped
  /\ outcome.kind = "ok" /\ other.outcome.kind = "ok"
  /\ outcome.payload.filteredJobPostings # <<>>
  /\ other.outcome.payload.filteredJobPostings # <<>>
  /\ outcome.payload.filteredJobPostings # other.outcome.payload.filteredJobPostings
  /\ outcome.payload.country # other.outcome.payload.country

(***************************************************************************)
(* C25, C26: the page loop of get_company_job_postings.                    *)
(***************************************************************************)
\* C25: get_company_job_postings requests pages 1, 2, 3, ... in increasing
\* order, none skipped and none twice, stops at the first page for which the
\* provider returns an empty body or a 404, and requests no page after it.
C25_PagesInOrderUntilEmptyOr404 ==
  (call.kind = "class" /\ call.tool = "get_company_job_postings" /\ http # <<>>) =>
     /\ params = [k \in 1..Len(http) |-> k]
     /\ \A k \in 1..Len(received) :
          (\/ received[k].http = "ok" /\ received[k].data.kind = "none"
           \/ received[k].http = "ok" /\ received[k].data.items = <<>>
           \/ received[k].http = "fail" /\ received[k].status = 404)
          => /\ Len(params) = k
             /\ cpc = "done"

\* C26: the page loop has no page cap: the call ends if and only if the
\* provider returns an empty page, a 404 or a failing response; as long as
\* every page is a non-empty page or a 2xx response other than 200, the call
\* produces no result and asks for the next page.
C26_EndsOnlyOnEmpty404OrFailure ==
  (call.kind = "class" /\ call.tool = "get_company_job_postings" /\ received # <<>>) =>
     LET last == received[Len(received)]
         ending == \/ last.http = "fail"
                   \/ /\ last.http = "ok" /\ last.status = 200
                      /\ (last.data.kind = "none" \/ last.data.items = <<>>)
     IN  /\ cpc = "done" <=> ending
         /\ ~ending => /\ outcome = NoOutcome
                       /\ Len(params) = Len(received) + 1

(***************************************************************************)
(* C27, C30: the initiate operations.  C29: the handler's catch block.     *)
(***************************************************************************)
\* C27: a successful initiate operation issues exactly one trigger POST and no
\* progress or snapshot GET, and returns a payload that carries the provider's
\* snapshot_id unchanged with status 'processing'; an initiate call rejected
\* by its own input check (an empty urls list, a URL that does not contain
\* 'linkedin.com/company/') issues no trigger POST.
C27_InitiateTriggersOnceAndReturnsHandle ==
  InitiateDone =>
    /\ outcome.kind = "ok" =>
         /\ http = <<"trigger">>
         /\ Len(received) = 1
         /\ outcome.payload.snapshot_id = received[1].snapshot_id
         /\ outcome.payload.status = "processing"
    /\ (\/ /\ call.tool = "initiate_companies_data_collection"
           /\ call.input = <<>>
        \/ /\ call.tool = "initiate_company_posts_collection"
           /\ \A i \in 1..Len(call.input) : call.input[i] # "linkedin.com/company/")
       => /\ http = <<>>
          /\ outcome.kind = "error"

C27_Witness ==
  /\ InitiateDone /\ outcome.kind = "ok"
  /\ call.tool = "initiate_company_posts_collection"
  /\ http = <<"trigger">>
  /\ outcome.payload.snapshot_id = "s2"

\* C29: in the class-based variants every error that leaves the CallTool
\* handler has code InternalError and a message that starts with 'Failed to
\* process request: ', whatever the code of the error first thrown.
C29_EveryErrorLeavesAsInternalError ==
  (ClassDone /\ outcome.kind = "error") =>
     /\ outcome.code = "InternalError"
     /\ Head(outcome.message) = "Failed to process request: "

C29_Witness ==
  /\ ClassDone /\ outcome.kind = "error"
  /\ thrown.code = "MethodNotFound"
  /\ outcome.code = "InternalError"
  /\ Head(outcome.message) = "Failed to process request: "

\* C30: in every server variant the next_step text of an initiate response
\* names a check tool that is registered in that server.
C30_NextStepNamesRegisteredCheckTool ==
  (InitiateDone /\ outcome.kind = "ok") =>
     outcome.payload.next_step \in CheckTools(variant)
====
